---- MODULE Spec2Model ----
(***************************************************************************)
(* Stock ledger, stock aggregate and Invoice / Purchase lifecycle of the   *)
(* stock-management backend (Express controllers over Mongoose models).    *)
(*                                                                         *)
(* Every request handler is one atomic action (sequential histories).      *)
(* Money is an integer number of 1/10000 currency units, so that           *)
(* netAmount * taxRate / 100 is exact for prices given in cents and        *)
(* Math.round(grandTotal * 100) / 100 is a real rounding step.  Binary     *)
(* floating-point error is not modelled.  Quantities are whole units.      *)
(* The set of products, the client and the supplier are fixed: product,    *)
(* client and supplier deletion are not modelled, so every findById of a   *)
(* counterparty or product succeeds.                                       *)
(***************************************************************************)
EXTENDS Integers, Sequences, FiniteSets, TLC

\* ------------------------------------------------------------- bounds ----
\* the histories explored: at most this many requests that change the database
MaxRequests == 4

\* ----------------------------------------------------- input domains ----
Products == {"p1", "p2"}
InvoiceIds == {"i1"}
PurchaseIds == {"u1"}
TheClient == "c1"
TheSupplier == "s1"

Scale == 100 * 100
Cur(x) == x * Scale

\* currentStock given in the body of createProduct
StockAtCreation == [p \in Products |-> IF p = "p1" THEN 2 ELSE 1]

\* a line item as sent in a request body (derived fields not yet computed)
ItemInput(p, q, price, disc, code, rate) ==
  [product |-> p, quantity |-> q, unitPrice |-> price, discount |-> disc,
   taxCode |-> code, taxRate |-> rate,
   subtotal |-> 0, taxAmount |-> 0, totalWithTax |-> 0]

InvoiceItemLists ==
  { <<ItemInput("p1", 1, Cur(1000), 0, "A", 0)>>,
    <<ItemInput("p1", 1, Cur(400), 0, "A", 0),
      ItemInput("p2", 1, Cur(500), 0, "B", 18)>>,
    <<ItemInput("p2", 1, Cur(200), Cur(1200), "None", 18)>>,
    <<>> }

\* a purchase line item as sent in a request body
PurchaseItemInput(p, q, cost, disc, code, rate) ==
  [product |-> p, quantity |-> q, unitCost |-> cost, discount |-> disc,
   taxCode |-> code, taxRate |-> rate,
   subtotal |-> 0, taxAmount |-> 0, totalWithTax |-> 0]

\* 2 x 500.00 without tax, and 1 x 0.25 with 18% tax (0.295, rounded to 0.30)
PurchaseItemLists ==
  { <<PurchaseItemInput("p1", 2, Cur(500), 0, "A", 0)>>,
    <<PurchaseItemInput("p2", 1, 2500, 0, "B", 18)>> }

PayAmounts == {0, Cur(400), Cur(600)}
PayMethods == {"cash", "bank_transfer"}
StockQuantities == {1}
\* unitCost in the body of receiveStock
UnitCosts == {Cur(1)}
QuotationIds == {"q1"}
\* the invoice ids of the histories with quotations
QuotedInvoiceIds == {"i1", "i2"}
QuotationStatuses == {"draft", "sent", "approved", "rejected", "converted", "expired"}
\* an amount the payment schema refuses
InvalidPayAmounts == {0 - Cur(400)}
\* a currentStock a body of PUT /api/products/:id carries
ProductStockInputs == {5}
AdjustReasons == {"damage"}
AdjustTypes == {"in", "out"}
\* reason, type and quantity of bodies of POST /api/stock/adjust that the
\* handler may refuse
AnyAdjustReasons == {"damage", "sale"}
AnyAdjustTypes == {"in", "out", "adjustment"}
AnyAdjustQuantities == {1, 3}
\* bodies of PUT /api/stock/movements/:id: metadata alone, and metadata
\* together with fields of the movement itself
\* the ids of the histories of document numbers
NumberedInvoiceIds == {"i1", "i2", "i3"}
NumberedPurchaseIds == {"u1", "u2", "u3"}
NumberedQuotationIds == {"q1", "q2", "q3"}
MovementBodies ==
  { [notes |-> "edited"],
    [notes |-> "recounted", product |-> "p2", type |-> "in", quantity |-> 9,
     previousStock |-> 9, newStock |-> 18],
    [quantity |-> 9, newStock |-> 9] }

\* ------------------------------------------------------------- state ----
VARIABLES
  products,    \* Product collection: id -> [currentStock, averageCost]
  movements,   \* StockMovement collection, in insertion order
  invoices,    \* Invoice collection: id -> document
  purchases,   \* Purchase collection: id -> document
  clients,     \* Client collection: id -> [outstandingBalance, totalPurchases]
  suppliers,   \* Supplier collection: id -> [totalPurchases]
  quotations,  \* Quotation collection: id -> document
  deleted,     \* the ids of the deleted documents (an _id is never issued twice)
  requests,    \* how many requests have changed the database so far
  deducted,    \* history: per invoice, the Product collection as it was before
               \* the request that deducted the invoice's stock, while no later
               \* request has changed a product
  last,        \* the last request served and its outcome
  procs        \* the requests in progress, when handlers interleave at their
               \* awaits: per request, where it stands and what it has read

vars == <<products, movements, invoices, purchases, clients, suppliers, quotations, deleted,
          requests, deducted, last, procs>>
db == <<products, movements, invoices, purchases, clients, suppliers, quotations, deleted>>

\* ----------------------------------------------------------- helpers ----
RECURSIVE SeqSum(_)
SeqSum(s) == IF s = <<>> THEN 0 ELSE Head(s) + SeqSum(Tail(s))

RemoveAt(s, k) == [j \in 1..(Len(s) - 1) |-> IF j < k THEN s[j] ELSE s[j + 1]]

Max(a, b) == IF a >= b THEN a ELSE b

\* A cost per unit is a quotient of two integers (totalValue / newStock), kept
\* in lowest terms; the rounding of the floating-point division is not modelled.
RECURSIVE GCD(_, _)
GCD(a, b) == IF b = 0 THEN a ELSE GCD(b, a % b)

Quotient(n, d) ==
  IF n = 0 THEN [num |-> 0, den |-> 1]
  ELSE [num |-> n \div GCD(n, d), den |-> d \div GCD(n, d)]

\* (previousStock * averageCost + quantity * unitCost) / (previousStock + quantity)
WeightedAverage(previousStock, averageCost, quantity, unitCost) ==
  Quotient(previousStock * averageCost.num + quantity * unitCost * averageCost.den,
           averageCost.den * (previousStock + quantity))

Response(op, doc, result) == [op |-> op, doc |-> doc, result |-> result]

\* StockMovement.create: the fields of the ledger entry the handlers set
Movement(p, type, reason, q, prev, new, refModel, refDoc) ==
  [product |-> p, type |-> type, reason |-> reason, quantity |-> q,
   previousStock |-> prev, newStock |-> new,
   referenceModel |-> refModel, referenceDocument |-> refDoc,
   notes |-> "as created"]

\* the requests that run side by side
Procs == {1, 2}

\* a request that has not arrived yet
Idle ==
  [pc |-> "idle", op |-> "none", doc |-> "none", k |-> 0, quantity |-> 0, unitCost |-> 0,
   amount |-> 0,
   product |-> [currentStock |-> 0, averageCost |-> Quotient(0, 1)],
   document |-> [status |-> "none"],
   client |-> [outstandingBalance |-> 0, totalPurchases |-> 0]]

Init ==
  /\ products = [p \in Products |-> [currentStock |-> StockAtCreation[p],
                                      averageCost |-> Quotient(0, 1)]]
  /\ movements = <<>>
  /\ invoices = [i \in {} |-> 0]
  /\ purchases = [u \in {} |-> 0]
  /\ clients = [c \in {TheClient} |-> [outstandingBalance |-> 0, totalPurchases |-> 0]]
  /\ suppliers = [s \in {TheSupplier} |-> [totalPurchases |-> 0]]
  /\ quotations = [q \in {} |-> 0]
  /\ deleted = {}
  /\ requests = 0
  /\ deducted = [i \in InvoiceIds |-> [known |-> FALSE, products |-> products]]
  /\ last = Response("none", "none", "none")
  /\ procs = [r \in Procs |-> Idle]

\* ----------------------------------------------- product controller ----
\* PUT /api/products/:id   (a body that carries currentStock):
\* Object.assign(product, req.body), product.save()
updateProduct(p, currentStock) ==
  /\ products' = [products EXCEPT ![p].currentStock = currentStock]
  /\ last' = Response("updateProduct", p, "ok")
  /\ UNCHANGED <<movements, invoices, purchases, clients, suppliers, quotations, deleted>>

\* ------------------------------------------------- stock controller ----
\* POST /api/stock/movements
receiveStock(p, q, unitCost, withSupplier) ==
  /\ LET previousStock == products[p].currentStock
         newStock == previousStock + q
     IN /\ movements' = Append(movements,
                Movement(p, "in", "purchase", q, previousStock, newStock, "none", "none"))
        /\ products' = [products EXCEPT
              ![p].currentStock = newStock,
              ![p].averageCost = WeightedAverage(previousStock, @, q, unitCost)]
  /\ suppliers' = IF withSupplier
                  THEN [suppliers EXCEPT ![TheSupplier].totalPurchases = @ + q * unitCost]
                  ELSE suppliers
  /\ last' = Response("receiveStock", "none", "ok")
  /\ UNCHANGED <<invoices, purchases, clients, quotations, deleted>>

\* an outbound adjustment that is never held against the stock
ExceedsNoStock(type, quantity, previousStock) == FALSE

\* adjustStock: type === 'out' and quantity > previousStock
ExceedsStock(type, quantity, previousStock) == type = "out" /\ quantity > previousStock

\* POST /api/stock/adjust
adjustStock(p, q, reason, type) ==
  LET validReasons == {"damage", "loss", "theft", "expired", "correction", "transfer"}
      previousStock == products[p].currentStock
  IN IF reason \notin validReasons
     THEN /\ last' = Response("adjustStock", "none", "InvalidReason")
          /\ UNCHANGED db
     ELSE IF ExceedsStock(type, q, previousStock)
     THEN /\ last' = Response("adjustStock", "none", "ExceedsStock")
          /\ UNCHANGED db
     ELSE IF type \notin {"in", "out"}
     THEN /\ last' = Response("adjustStock", "none", "InvalidType")
          /\ UNCHANGED db
     ELSE /\ LET newStock == IF type = "in" THEN previousStock + q ELSE previousStock - q
             IN /\ movements' = Append(movements,
                      Movement(p, "adjustment", reason, q, previousStock, newStock, "none", "none"))
                /\ products' = [products EXCEPT ![p].currentStock = newStock]
          /\ last' = Response("adjustStock", "none", "ok")
          /\ UNCHANGED <<invoices, purchases, clients, suppliers, quotations, deleted>>

\* an editable list that lets the quantities through
allowedWithQuantities ==
  {"notes", "referenceNumber", "referenceType", "batchNumber", "lotNumber", "expiryDate",
   "unitCost", "totalCost", "supplier", "movementDate", "quantity", "newStock"}

\* updateStockMovement: "Only allow editing of safe metadata fields"
allowed ==
  {"notes", "referenceNumber", "referenceType", "batchNumber", "lotNumber", "expiryDate",
   "unitCost", "totalCost", "supplier", "movementDate"}

\* updateStockMovement: allowed.forEach(field => ...), on the fields of a
\* movement that the model keeps
EditedMovement(movement, body) ==
  [field \in DOMAIN movement |->
     IF field \in allowed /\ field \in DOMAIN body THEN body[field] ELSE movement[field]]

\* PUT /api/stock/movements/:id
updateStockMovement(k, body) ==
  /\ k \in 1..Len(movements)
  /\ movements' = [movements EXCEPT ![k] = EditedMovement(@, body)]
  /\ last' = Response("updateStockMovement", "none", "ok")
  /\ UNCHANGED <<products, invoices, purchases, clients, suppliers, quotations, deleted>>

\* DELETE /api/stock/movements/:id
deleteStockMovement(k) ==
  /\ k \in 1..Len(movements)
  /\ products' = [products EXCEPT ![movements[k].product].currentStock = movements[k].previousStock]
  /\ movements' = RemoveAt(movements, k)
  /\ last' = Response("deleteStockMovement", "none", "ok")
  /\ UNCHANGED <<invoices, purchases, clients, suppliers, quotations, deleted>>


\* ------------------------------------------------------ Invoice model ----
\* netAmount * (taxRate / 100)
TaxOf(netAmount, taxRate) == (netAmount * taxRate) \div 100

\* Math.round(grandTotal * 100) / 100: to the nearest cent, halves upwards
Round2(amount) == ((amount + 50) \div 100) * 100

\* pre('save'): the per-item recomputation inside items.forEach
InvoiceItemTotals(item) ==
  LET itemSubtotal == item.quantity * item.unitPrice
      netAmount == itemSubtotal - item.discount
      taxAmount == TaxOf(netAmount, item.taxRate)
  IN [item EXCEPT !.subtotal = itemSubtotal,
                  !.taxAmount = taxAmount,
                  !.totalWithTax = netAmount + taxAmount]

\* a bucket that takes the tax of every line item, whatever its tax code
BucketTaxOfEveryCode(items, code) ==
  SeqSum([k \in 1..Len(items) |->
            TaxOf(items[k].quantity * items[k].unitPrice - items[k].discount,
                  items[k].taxRate)])

\* the tax of the items of one tax bucket (totalTaxA, totalTaxB)
BucketTax(items, code) ==
  SeqSum([k \in 1..Len(items) |->
            IF items[k].taxCode = code
            THEN TaxOf(items[k].quantity * items[k].unitPrice - items[k].discount,
                       items[k].taxRate)
            ELSE 0])

\* a status rule that calls a document paid only when more than its total
\* has been paid (the code's rule is InvoiceStatusOnSave, below)
StatusOnSaveOverpaidOnly(status, amountPaid, roundedAmount) ==
  IF amountPaid > roundedAmount /\ roundedAmount > 0 THEN "paid"
  ELSE IF amountPaid > 0 /\ amountPaid < roundedAmount THEN "partial"
  ELSE status

\* pre('save'): "Update status based on payment"
InvoiceStatusOnSave(status, amountPaid, roundedAmount) ==
  IF amountPaid >= roundedAmount /\ roundedAmount > 0 THEN "paid"
  ELSE IF amountPaid > 0 /\ amountPaid < roundedAmount THEN "partial"
  ELSE status

\* invoiceSchema.pre('save'): totals, balance and status of a document that
\* is being saved
InvoicePreSave(doc) ==
  LET withTotals ==
        IF Len(doc.items) > 0
        THEN LET items == [k \in 1..Len(doc.items) |-> InvoiceItemTotals(doc.items[k])]
                 totalTaxA == BucketTax(doc.items, "A")
                 totalTaxB == BucketTax(doc.items, "B")
                 subtotal == SeqSum([k \in 1..Len(items) |-> items[k].subtotal])
                 totalDiscount == SeqSum([k \in 1..Len(items) |-> items[k].discount])
                 totalTax == totalTaxA + totalTaxB
                 grandTotal == subtotal - totalDiscount + totalTax
                 roundedAmount == Round2(grandTotal)
             IN [doc EXCEPT !.items = items,
                            !.subtotal = subtotal,
                            !.totalDiscount = totalDiscount,
                            !.totalTax = totalTax,
                            !.grandTotal = grandTotal,
                            !.roundedAmount = roundedAmount,
                            !.balance = roundedAmount - doc.amountPaid]
        ELSE doc
  IN [withTotals EXCEPT !.status =
        InvoiceStatusOnSave(withTotals.status, withTotals.amountPaid, withTotals.roundedAmount)]

\* an ObjectId path that is not set
NoQuotation == "none"
NoInvoice == "none"

\* new Date(): the time of the request being served, counted in requests
Now == requests + 1

\* new Date().getFullYear(): the histories are served within one year
CurrentYear == 2026

\* a document whose number has not been generated
Unnumbered == [year |-> 0, seq |-> 0]

\* pre('save') "Auto-generate ... number": the year and count + 1 padded to
\* five digits, after the prefix of the collection
GeneratedNumber(count) == [year |-> CurrentYear, seq |-> count + 1]

\* the number the hook gives a new document of the collection, from
\* countDocuments()
NumberFor(coll) == GeneratedNumber(Cardinality(DOMAIN coll))

\* the unique index on the number: a document of the collection has it already
DuplicateKey(coll, path, number) == \E d \in DOMAIN coll : coll[d][path] = number

\* the schema defaults of a new Invoice with the given items
NewInvoice(items) ==
  [invoiceNumber |-> Unnumbered, items |-> items, status |-> "draft",
   subtotal |-> 0, totalDiscount |-> 0, totalTax |-> 0, grandTotal |-> 0,
   roundedAmount |-> 0, amountPaid |-> 0, balance |-> 0, payments |-> <<>>,
   stockDeducted |-> FALSE, quotation |-> NoQuotation]

\* createInvoice / updateInvoice: "Process items with tax codes"
processedItems(items) ==
  [k \in 1..Len(items) |->
     LET item == items[k]
         subtotal == item.quantity * item.unitPrice
         netAmount == subtotal - item.discount
         taxAmount == TaxOf(netAmount, item.taxRate)
     IN [item EXCEPT !.subtotal = subtotal,
                     !.taxAmount = taxAmount,
                     !.totalWithTax = netAmount + taxAmount]]

\* createInvoice / updateInvoice: "Validate stock availability for all items"
StockAvailable(items) ==
  \A k \in 1..Len(items) : ~(products[items[k].product].currentStock < items[k].quantity)

Put(coll, id, doc) == [j \in DOMAIN coll \cup {id} |-> IF j = id THEN doc ELSE coll[j]]
Drop(coll, id) == [j \in DOMAIN coll \ {id} |-> coll[j]]

\* POST /api/invoices   (quotation: the id the body gives, which is stored as
\* it is given)
createInvoice(i, items, quotation) ==
  /\ i \notin DOMAIN invoices \cup deleted
  /\ IF ~StockAvailable(items)
     THEN /\ last' = Response("createInvoice", i, "InsufficientStock")
          /\ UNCHANGED db
     ELSE IF DuplicateKey(invoices, "invoiceNumber", NumberFor(invoices))
     THEN /\ last' = Response("createInvoice", i, "DuplicateKey")
          /\ UNCHANGED db
     ELSE /\ invoices' = Put(invoices, i,
                              InvoicePreSave([NewInvoice(processedItems(items))
                                                EXCEPT !.invoiceNumber = NumberFor(invoices),
                                                       !.quotation = quotation]))
          /\ last' = Response("createInvoice", i, "ok")
          /\ UNCHANGED <<products, movements, purchases, clients, suppliers, quotations, deleted>>

\* PUT /api/invoices/:id   (a body that carries items)
updateInvoice(i, items) ==
  /\ i \in DOMAIN invoices
  /\ IF invoices[i].status # "draft"
     THEN /\ last' = Response("updateInvoice", i, "InvalidState")
          /\ UNCHANGED db
     ELSE IF ~StockAvailable(items)
     THEN /\ last' = Response("updateInvoice", i, "InsufficientStock")
          /\ UNCHANGED db
     ELSE \* findByIdAndUpdate: the fields of the body are written as they are,
          \* no save middleware runs
          /\ invoices' = [invoices EXCEPT ![i].items = processedItems(items)]
          /\ last' = Response("updateInvoice", i, "ok")
          /\ UNCHANGED <<products, movements, purchases, clients, suppliers, quotations, deleted>>

\* DELETE /api/invoices/:id
deleteInvoice(i) ==
  /\ i \in DOMAIN invoices
  /\ IF invoices[i].status # "draft"
     THEN /\ last' = Response("deleteInvoice", i, "InvalidState")
          /\ UNCHANGED db
     ELSE /\ invoices' = Drop(invoices, i)
          /\ deleted' = deleted \cup {i}
          /\ last' = Response("deleteInvoice", i, "ok")
          /\ UNCHANGED <<products, movements, purchases, clients, suppliers, quotations>>

\* The state a loop over the line items threads through: the Product and
\* StockMovement collections, and whether the loop
\* ran to its end.
LoopState(prods, movs, ok) == [products |-> prods, movements |-> movs, ok |-> ok]

\* confirmInvoice: "Validate stock and deduct", item by item; the first item
\* without enough stock ends the request
RECURSIVE confirmInvoiceLoop(_, _, _, _)
confirmInvoiceLoop(i, items, k, st) ==
  IF k > Len(items) THEN st
  ELSE LET item == items[k]
           product == st.products[item.product]
       IN IF product.currentStock < item.quantity
          THEN [st EXCEPT !.ok = FALSE]
          ELSE LET previousStock == product.currentStock
                   newStock == previousStock - item.quantity
               IN confirmInvoiceLoop(i, items, k + 1,
                    LoopState([st.products EXCEPT ![item.product].currentStock = newStock],
                              Append(st.movements,
                                     Movement(item.product, "out", "sale", item.quantity,
                                              previousStock, newStock, "Invoice", i)), TRUE))

\* PUT /api/invoices/:id/confirm
confirmInvoice(i) ==
  /\ i \in DOMAIN invoices
  /\ IF invoices[i].status # "draft"
     THEN /\ last' = Response("confirmInvoice", i, "InvalidState")
          /\ UNCHANGED db
     ELSE /\ LET st == confirmInvoiceLoop(i, invoices[i].items, 1,
                                          LoopState(products, movements, TRUE))
             IN /\ products' = st.products
                /\ movements' = st.movements
                /\ IF ~st.ok
                   THEN /\ last' = Response("confirmInvoice", i, "InsufficientStock")
                        /\ UNCHANGED <<invoices, clients, quotations>>
                   ELSE LET saved == InvoicePreSave([invoices[i] EXCEPT !.status = "confirmed",
                                                                         !.stockDeducted = TRUE])
                        IN /\ invoices' = [invoices EXCEPT ![i] = saved]
                           \* "Update linked quotation if exists": findByIdAndUpdate,
                           \* whatever the quotation's status is
                           /\ quotations' =
                                IF saved.quotation \in DOMAIN quotations
                                THEN [quotations EXCEPT ![saved.quotation] =
                                        [@ EXCEPT !.status = "converted",
                                                  !.convertedToInvoice = i,
                                                  !.conversionDate = Now]]
                                ELSE quotations
                           /\ clients' = [clients EXCEPT ![TheClient].outstandingBalance =
                                                           @ + saved.roundedAmount]
                           /\ last' = Response("confirmInvoice", i, "ok")
          /\ UNCHANGED <<purchases, suppliers, deleted>>

\* recordPayment: "Deduct stock on first payment"; an item without enough
\* stock is passed over
RECURSIVE paymentDeductLoop(_, _, _, _)
paymentDeductLoop(i, items, k, st) ==
  IF k > Len(items) THEN st
  ELSE LET item == items[k]
           product == st.products[item.product]
       IN IF product.currentStock >= item.quantity
          THEN LET previousStock == product.currentStock
                   newStock == previousStock - item.quantity
               IN paymentDeductLoop(i, items, k + 1,
                    LoopState([st.products EXCEPT ![item.product].currentStock = newStock],
                              Append(st.movements,
                                     Movement(item.product, "out", "sale", item.quantity,
                                              previousStock, newStock, "Invoice", i)), TRUE))
          ELSE paymentDeductLoop(i, items, k + 1, st)

\* a payment check against the document's total rather than against what is
\* left to pay (the code's check is InvoicePaymentExceedsBalance, below)
PaymentExceedsTotal(doc, amount) == amount > doc.roundedAmount

\* recordPayment: "if (amount > invoice.balance)"
InvoicePaymentExceedsBalance(doc, amount) == amount > doc.balance

\* a payment that leaves what the client owes as it is
OutstandingKeptAfterPayment(outstandingBalance, amount) == outstandingBalance

\* recordPayment: "client.outstandingBalance -= amount", not below 0
OutstandingAfterPayment(outstandingBalance, amount) ==
  IF outstandingBalance - amount < 0 THEN 0 ELSE outstandingBalance - amount

\* paymentSchema: amount has min 0
PaymentIsValid(amount) == amount >= 0

\* POST /api/invoices/:id/payment
recordInvoicePayment(i, amount) ==
  /\ i \in DOMAIN invoices
  /\ IF invoices[i].status = "cancelled"
     THEN /\ last' = Response("recordInvoicePayment", i, "InvalidState")
          /\ UNCHANGED db
     ELSE IF InvoicePaymentExceedsBalance(invoices[i], amount)
     THEN /\ last' = Response("recordInvoicePayment", i, "PaymentExceedsBalance")
          /\ UNCHANGED db
     ELSE /\ LET invoice == invoices[i]
                 paid == [invoice EXCEPT !.payments = Append(@, amount),
                                         !.amountPaid = @ + amount]
                 autoConfirm == ~invoice.stockDeducted /\ invoice.status = "draft"
                 st == IF autoConfirm
                       THEN paymentDeductLoop(i, invoice.items, 1,
                                              LoopState(products, movements, TRUE))
                       ELSE LoopState(products, movements, TRUE)
                 confirmed == IF autoConfirm
                              THEN [paid EXCEPT !.stockDeducted = TRUE, !.status = "confirmed"]
                              ELSE paid
             IN /\ products' = st.products
                /\ movements' = st.movements
                /\ clients' = [clients EXCEPT
                      ![TheClient].totalPurchases = @ + amount,
                      ![TheClient].outstandingBalance = OutstandingAfterPayment(@, amount)]
                \* invoice.save() validates the document first: a payment that
                \* the payment schema refuses fails the save, after the
                \* products, the movements and the client were written
                /\ IF PaymentIsValid(amount)
                   THEN /\ invoices' = [invoices EXCEPT ![i] = InvoicePreSave(confirmed)]
                        /\ last' = Response("recordInvoicePayment", i, "ok")
                   ELSE /\ invoices' = invoices
                        /\ last' = Response("recordInvoicePayment", i, "ValidationError")
          /\ UNCHANGED <<purchases, suppliers, quotations, deleted>>

\* cancelInvoice / cancelPurchase: "Cannot cancel a fully paid ..."
CancelAllowedWhenPaid(doc) == doc.status = "paid" /\ doc.amountPaid = 0

CannotCancelPaid(doc) == doc.status = "paid"

\* cancelInvoice: "Reverse stock if it was deducted", one 'return' movement
\* per item
RECURSIVE cancelInvoiceLoop(_, _, _, _)
cancelInvoiceLoop(i, items, k, st) ==
  IF k > Len(items) THEN st
  ELSE LET item == items[k]
           previousStock == st.products[item.product].currentStock
           newStock == previousStock + item.quantity
       IN cancelInvoiceLoop(i, items, k + 1,
            LoopState([st.products EXCEPT ![item.product].currentStock = newStock],
                      Append(st.movements,
                             Movement(item.product, "in", "return", item.quantity,
                                      previousStock, newStock, "Invoice", i)), TRUE))

\* PUT /api/invoices/:id/cancel
cancelInvoice(i) ==
  /\ i \in DOMAIN invoices
  /\ IF CannotCancelPaid(invoices[i])
     THEN /\ last' = Response("cancelInvoice", i, "CannotCancelPaidDocument")
          /\ UNCHANGED db
     ELSE /\ LET invoice == invoices[i]
                 st == IF invoice.stockDeducted
                       THEN cancelInvoiceLoop(i, invoice.items, 1,
                                              LoopState(products, movements, TRUE))
                       ELSE LoopState(products, movements, TRUE)
                 unpaidAmount == invoice.roundedAmount - invoice.amountPaid
                 balanceLeft == clients[TheClient].outstandingBalance - unpaidAmount
             IN /\ products' = st.products
                /\ movements' = st.movements
                /\ clients' = [clients EXCEPT
                      ![TheClient].outstandingBalance = IF balanceLeft < 0 THEN 0 ELSE balanceLeft]
                /\ invoices' = [invoices EXCEPT
                      ![i] = InvoicePreSave([invoice EXCEPT !.status = "cancelled"])]
          /\ last' = Response("cancelInvoice", i, "ok")
          /\ UNCHANGED <<purchases, suppliers, quotations, deleted>>

\* ----------------------------------------------------- Purchase model ----
\* pre('save'): the per-item recomputation inside items.forEach
PurchaseItemTotals(item) ==
  LET itemSubtotal == item.quantity * item.unitCost
      netAmount == itemSubtotal - item.discount
      taxAmount == TaxOf(netAmount, item.taxRate)
  IN [item EXCEPT !.subtotal = itemSubtotal,
                  !.taxAmount = taxAmount,
                  !.totalWithTax = netAmount + taxAmount]

\* the tax of the purchase items of one tax bucket (totalTaxA, totalTaxB)
PurchaseBucketTax(items, code) ==
  SeqSum([k \in 1..Len(items) |->
            IF items[k].taxCode = code
            THEN TaxOf(items[k].quantity * items[k].unitCost - items[k].discount,
                       items[k].taxRate)
            ELSE 0])

\* pre('save'): "Update status based on payment"
PurchaseStatusOnSave(status, amountPaid, roundedAmount) ==
  IF amountPaid >= roundedAmount /\ roundedAmount > 0 THEN "paid"
  ELSE IF amountPaid > 0 /\ amountPaid < roundedAmount THEN "partial"
  ELSE status

\* purchaseSchema.pre('save')
PurchasePreSave(doc) ==
  LET withTotals ==
        IF Len(doc.items) > 0
        THEN LET items == [k \in 1..Len(doc.items) |-> PurchaseItemTotals(doc.items[k])]
                 totalTaxA == PurchaseBucketTax(doc.items, "A")
                 totalTaxB == PurchaseBucketTax(doc.items, "B")
                 subtotal == SeqSum([k \in 1..Len(items) |-> items[k].subtotal])
                 totalDiscount == SeqSum([k \in 1..Len(items) |-> items[k].discount])
                 totalTax == totalTaxA + totalTaxB
                 grandTotal == subtotal - totalDiscount + totalTax
                 roundedAmount == Round2(grandTotal)
             IN [doc EXCEPT !.items = items,
                            !.subtotal = subtotal,
                            !.totalDiscount = totalDiscount,
                            !.totalTax = totalTax,
                            !.grandTotal = grandTotal,
                            !.roundedAmount = roundedAmount,
                            !.balance = roundedAmount - doc.amountPaid]
        ELSE doc
  IN [withTotals EXCEPT !.status =
        PurchaseStatusOnSave(withTotals.status, withTotals.amountPaid, withTotals.roundedAmount)]

\* the schema defaults of a new Purchase with the given items
NewPurchase(items) ==
  [purchaseNumber |-> Unnumbered, items |-> items, status |-> "draft",
   subtotal |-> 0, totalDiscount |-> 0, totalTax |-> 0, grandTotal |-> 0,
   roundedAmount |-> 0, amountPaid |-> 0, balance |-> 0, payments |-> <<>>,
   stockAdded |-> FALSE]

\* createPurchase / updatePurchase: "Process items with tax codes"
processedPurchaseItems(items) ==
  [k \in 1..Len(items) |->
     LET item == items[k]
         subtotal == item.quantity * item.unitCost
         netAmount == subtotal - item.discount
         taxAmount == TaxOf(netAmount, item.taxRate)
     IN [item EXCEPT !.subtotal = subtotal,
                     !.taxAmount = taxAmount,
                     !.totalWithTax = netAmount + taxAmount]]

\* POST /api/purchases
createPurchase(u, items) ==
  /\ u \notin DOMAIN purchases \cup deleted
  /\ IF DuplicateKey(purchases, "purchaseNumber", NumberFor(purchases))
     THEN /\ last' = Response("createPurchase", u, "DuplicateKey")
          /\ UNCHANGED db
     ELSE /\ purchases' = Put(purchases, u,
                               PurchasePreSave([NewPurchase(processedPurchaseItems(items))
                                                  EXCEPT !.purchaseNumber = NumberFor(purchases)]))
          /\ last' = Response("createPurchase", u, "ok")
          /\ UNCHANGED <<products, movements, invoices, clients, suppliers, quotations, deleted>>

\* PUT /api/purchases/:id   (a body that carries items)
updatePurchase(u, items) ==
  /\ u \in DOMAIN purchases
  /\ IF purchases[u].status # "draft"
     THEN /\ last' = Response("updatePurchase", u, "InvalidState")
          /\ UNCHANGED db
     ELSE \* findByIdAndUpdate: no save middleware runs
          /\ purchases' = [purchases EXCEPT ![u].items = processedPurchaseItems(items)]
          /\ last' = Response("updatePurchase", u, "ok")
          /\ UNCHANGED <<products, movements, invoices, clients, suppliers, quotations, deleted>>

\* DELETE /api/purchases/:id
deletePurchase(u) ==
  /\ u \in DOMAIN purchases
  /\ IF purchases[u].status # "draft"
     THEN /\ last' = Response("deletePurchase", u, "InvalidState")
          /\ UNCHANGED db
     ELSE /\ purchases' = Drop(purchases, u)
          /\ deleted' = deleted \cup {u}
          /\ last' = Response("deletePurchase", u, "ok")
          /\ UNCHANGED <<products, movements, invoices, clients, suppliers, quotations>>

\* receivePurchase: "Add stock for each item", one 'purchase' movement per
\* item, and "Update average cost if needed"
RECURSIVE receivePurchaseLoop(_, _, _, _)
receivePurchaseLoop(u, items, k, st) ==
  IF k > Len(items) THEN st
  ELSE LET item == items[k]
           product == st.products[item.product]
           previousStock == product.currentStock
           newStock == previousStock + item.quantity
           averageCost == IF product.averageCost.num = 0
                          THEN Quotient(item.unitCost, 1)
                          ELSE WeightedAverage(previousStock, product.averageCost,
                                               item.quantity, item.unitCost)
       IN receivePurchaseLoop(u, items, k + 1,
            LoopState([st.products EXCEPT ![item.product].currentStock = newStock,
                                          ![item.product].averageCost = averageCost],
                      Append(st.movements,
                             Movement(item.product, "in", "purchase", item.quantity,
                                      previousStock, newStock, "Purchase", u)),
                      TRUE))

\* recordPayment: "Auto-receive if stock not yet added and payment is made";
\* the average cost is set only while it is zero
RECURSIVE paymentReceiveLoop(_, _, _, _)
paymentReceiveLoop(u, items, k, st) ==
  IF k > Len(items) THEN st
  ELSE LET item == items[k]
           product == st.products[item.product]
           previousStock == product.currentStock
           newStock == previousStock + item.quantity
           averageCost == IF product.averageCost.num = 0
                          THEN Quotient(item.unitCost, 1)
                          ELSE product.averageCost
       IN paymentReceiveLoop(u, items, k + 1,
            LoopState([st.products EXCEPT ![item.product].currentStock = newStock,
                                          ![item.product].averageCost = averageCost],
                      Append(st.movements,
                             Movement(item.product, "in", "purchase", item.quantity,
                                      previousStock, newStock, "Purchase", u)),
                      TRUE))

\* PUT /api/purchases/:id/receive
\* The Supplier schema has no outstandingBalance path, so of the supplier
\* statistics only totalPurchases is persisted by supplier.save().
receivePurchase(u) ==
  /\ u \in DOMAIN purchases
  /\ IF purchases[u].status # "draft" /\ purchases[u].status # "ordered"
     THEN /\ last' = Response("receivePurchase", u, "InvalidState")
          /\ UNCHANGED db
     ELSE /\ LET st == receivePurchaseLoop(u, purchases[u].items, 1,
                                           LoopState(products, movements, TRUE))
                 saved == PurchasePreSave([purchases[u] EXCEPT !.status = "received",
                                                                !.stockAdded = TRUE])
             IN /\ products' = st.products
                /\ movements' = st.movements
                /\ purchases' = [purchases EXCEPT ![u] = saved]
                /\ suppliers' = [suppliers EXCEPT ![TheSupplier].totalPurchases =
                                                    @ + saved.roundedAmount]
          /\ last' = Response("receivePurchase", u, "ok")
          /\ UNCHANGED <<invoices, clients, quotations, deleted>>

\* recordPayment: "if (amount > purchase.balance)"
PurchasePaymentExceedsBalance(doc, amount) == amount > doc.balance

\* POST /api/purchases/:id/payment
recordPurchasePayment(u, amount, paymentMethod) ==
  /\ u \in DOMAIN purchases
  /\ IF purchases[u].status = "cancelled"
     THEN /\ last' = Response("recordPurchasePayment", u, "InvalidState")
          /\ UNCHANGED db
     ELSE IF PurchasePaymentExceedsBalance(purchases[u], amount)
     THEN /\ last' = Response("recordPurchasePayment", u, "PaymentExceedsBalance")
          /\ UNCHANGED db
     ELSE /\ LET purchase == purchases[u]
                 paid == [purchase EXCEPT !.payments = Append(@, amount),
                                          !.amountPaid = @ + amount]
                 autoReceive == /\ ~purchase.stockAdded
                                /\ purchase.status = "draft"
                                /\ paymentMethod \in {"cash", "card"}
                 st == IF autoReceive
                       THEN paymentReceiveLoop(u, purchase.items, 1,
                                                LoopState(products, movements, TRUE))
                       ELSE LoopState(products, movements, TRUE)
                 received == IF autoReceive
                             THEN [paid EXCEPT !.stockAdded = TRUE, !.status = "received"]
                             ELSE paid
             IN /\ products' = st.products
                /\ movements' = st.movements
                /\ purchases' = [purchases EXCEPT ![u] = PurchasePreSave(received)]
          /\ last' = Response("recordPurchasePayment", u, "ok")
          /\ UNCHANGED <<invoices, clients, suppliers, quotations, deleted>>

\* a reversal that also forgets the average cost of the product (the code's
\* reversal is cancelPurchaseLoop, below)
RECURSIVE cancelPurchaseLoopForgettingCost(_, _, _, _)
cancelPurchaseLoopForgettingCost(u, items, k, st) ==
  IF k > Len(items) THEN st
  ELSE LET item == items[k]
           previousStock == st.products[item.product].currentStock
           newStock == Max(0, previousStock - item.quantity)
       IN cancelPurchaseLoopForgettingCost(u, items, k + 1,
            LoopState([st.products EXCEPT ![item.product].currentStock = newStock,
                                          ![item.product].averageCost = Quotient(0, 1)],
                      Append(st.movements,
                             Movement(item.product, "out", "return", item.quantity,
                                      previousStock, newStock, "Purchase", u)),
                      TRUE))

\* a reversal that takes the quantity off whatever the stock is
ReversedStockBelowZero(previousStock, quantity) == previousStock - quantity

\* cancelPurchase: Math.max(0, previousStock - item.quantity)
ReversedStock(previousStock, quantity) == Max(0, previousStock - quantity)

\* cancelPurchase: "Reverse stock if it was added"; the new stock is cut off
\* at zero
RECURSIVE cancelPurchaseLoop(_, _, _, _)
cancelPurchaseLoop(u, items, k, st) ==
  IF k > Len(items) THEN st
  ELSE LET item == items[k]
           previousStock == st.products[item.product].currentStock
           newStock == ReversedStock(previousStock, item.quantity)
       IN cancelPurchaseLoop(u, items, k + 1,
            LoopState([st.products EXCEPT ![item.product].currentStock = newStock],
                      Append(st.movements,
                             Movement(item.product, "out", "return", item.quantity,
                                      previousStock, newStock, "Purchase", u)),
                      TRUE))

\* PUT /api/purchases/:id/cancel
cancelPurchase(u) ==
  /\ u \in DOMAIN purchases
  /\ IF CannotCancelPaid(purchases[u])
     THEN /\ last' = Response("cancelPurchase", u, "CannotCancelPaidDocument")
          /\ UNCHANGED db
     ELSE /\ LET purchase == purchases[u]
                 st == IF purchase.stockAdded
                       THEN cancelPurchaseLoop(u, purchase.items, 1,
                                               LoopState(products, movements, TRUE))
                       ELSE LoopState(products, movements, TRUE)
             IN /\ products' = st.products
                /\ movements' = st.movements
                /\ purchases' = [purchases EXCEPT
                      ![u] = PurchasePreSave([purchase EXCEPT !.status = "cancelled"])]
          /\ last' = Response("cancelPurchase", u, "ok")
          /\ UNCHANGED <<invoices, clients, suppliers, quotations, deleted>>

\* ---------------------------------------------- quotation controller ----
\* a line item of a request body, as the quotation handlers read it
QuotationItemInput(p, q, price, disc, rate) ==
  [product |-> p, quantity |-> q, unitPrice |-> price, discount |-> disc,
   taxRate |-> rate, subtotal |-> 0, total |-> 0]

QuotationItemLists == {<<>>, <<QuotationItemInput("p1", 1, Cur(1000), 0, 18)>>}

\* the bodies of PUT /api/quotations/:id: a status, or items, or both
QuotationBodies ==
  [hasStatus : {TRUE}, status : QuotationStatuses, hasItems : {FALSE}, items : {<<>>}]
    \cup [hasStatus : {FALSE}, status : {"draft"}, hasItems : {TRUE},
          items : QuotationItemLists \ {<<>>}]

\* createQuotation / updateQuotation: "Calculate item totals"
processedQuotationItems(items) ==
  [k \in 1..Len(items) |->
     LET item == items[k]
         subtotal == item.quantity * item.unitPrice
     IN [item EXCEPT !.subtotal = subtotal,
                     !.total = subtotal - item.discount + TaxOf(subtotal, item.taxRate)]]

RECURSIVE QuotationTax(_)
QuotationTax(items) ==
  IF items = <<>> THEN 0
  ELSE TaxOf(Head(items).subtotal - Head(items).discount, Head(items).taxRate)
         + QuotationTax(Tail(items))

\* pre('save') of the Quotation model: "Calculate totals before saving"
QuotationPreSave(doc) ==
  IF Len(doc.items) > 0
  THEN LET subtotal == SeqSum([k \in 1..Len(doc.items) |-> doc.items[k].subtotal])
           totalDiscount == SeqSum([k \in 1..Len(doc.items) |-> doc.items[k].discount])
           totalTax == QuotationTax(doc.items)
       IN [doc EXCEPT !.subtotal = subtotal, !.totalDiscount = totalDiscount,
                      !.totalTax = totalTax,
                      !.grandTotal = subtotal - totalDiscount + totalTax]
  ELSE doc

\* the schema defaults of a new Quotation with the given items
NewQuotation(items) ==
  [quotationNumber |-> Unnumbered, items |-> items, status |-> "draft",
   subtotal |-> 0, totalDiscount |-> 0, totalTax |-> 0, grandTotal |-> 0,
   convertedToInvoice |-> NoInvoice, conversionDate |-> 0]

\* POST /api/quotations
createQuotation(q, items) ==
  /\ q \notin DOMAIN quotations \cup deleted
  /\ IF DuplicateKey(quotations, "quotationNumber", NumberFor(quotations))
     THEN /\ last' = Response("createQuotation", q, "DuplicateKey")
          /\ UNCHANGED db
     ELSE /\ quotations' = Put(quotations, q,
                                QuotationPreSave([NewQuotation(processedQuotationItems(items))
                                                    EXCEPT !.quotationNumber = NumberFor(quotations)]))
          /\ last' = Response("createQuotation", q, "ok")
          /\ UNCHANGED <<products, movements, invoices, purchases, clients, suppliers, deleted>>

\* PUT /api/quotations/:id
updateQuotation(q, body) ==
  /\ q \in DOMAIN quotations
  /\ IF quotations[q].status \notin {"draft", "sent"}
     THEN /\ last' = Response("updateQuotation", q, "InvalidState")
          /\ UNCHANGED db
     ELSE \* findByIdAndUpdate: the fields of the body are written as they are,
          \* no save middleware runs
          /\ quotations' = [quotations EXCEPT
                ![q].status = IF body.hasStatus THEN body.status ELSE @,
                ![q].items = IF body.hasItems THEN processedQuotationItems(body.items) ELSE @]
          /\ last' = Response("updateQuotation", q, "ok")
          /\ UNCHANGED <<products, movements, invoices, purchases, clients, suppliers, deleted>>

\* DELETE /api/quotations/:id
deleteQuotation(q) ==
  /\ q \in DOMAIN quotations
  /\ IF quotations[q].status # "draft"
     THEN /\ last' = Response("deleteQuotation", q, "InvalidState")
          /\ UNCHANGED db
     ELSE /\ quotations' = Drop(quotations, q)
          /\ deleted' = deleted \cup {q}
          /\ last' = Response("deleteQuotation", q, "ok")
          /\ UNCHANGED <<products, movements, invoices, purchases, clients, suppliers>>

\* PUT /api/quotations/:id/approve
approveQuotation(q) ==
  /\ q \in DOMAIN quotations
  /\ IF quotations[q].status # "sent"
     THEN /\ last' = Response("approveQuotation", q, "InvalidState")
          /\ UNCHANGED db
     ELSE /\ quotations' = [quotations EXCEPT
                ![q] = QuotationPreSave([@ EXCEPT !.status = "approved"])]
          /\ last' = Response("approveQuotation", q, "ok")
          /\ UNCHANGED <<products, movements, invoices, purchases, clients, suppliers, deleted>>

\* Invoice.create in convertToInvoice: the line items are the quotation's, which
\* carry subtotal and total; the Invoice item schema requires totalWithTax, the
\* validation of the document runs before the pre('save') hooks, so a
\* quotation with a line item is refused
QuotationItemsAreInvoiceItems(items) == Len(items) = 0

\* convertToInvoice: "Only approved quotations can be converted to invoice"
QuotationNeitherApprovedNorConverted(doc) == doc.status \notin {"approved", "converted"}

QuotationNotApproved(doc) == doc.status # "approved"

\* POST /api/quotations/:id/convert-to-invoice   (i: the _id of the invoice
\* the request creates)
convertToInvoice(q, i) ==
  /\ q \in DOMAIN quotations
  /\ i \notin DOMAIN invoices \cup deleted
  /\ IF QuotationNotApproved(quotations[q])
     THEN /\ last' = Response("convertToInvoice", q, "InvalidState")
          /\ UNCHANGED db
     ELSE IF quotations[q].convertedToInvoice # NoInvoice
     THEN /\ last' = Response("convertToInvoice", q, "AlreadyConverted")
          /\ UNCHANGED db
     ELSE IF ~QuotationItemsAreInvoiceItems(quotations[q].items)
     THEN /\ last' = Response("convertToInvoice", q, "ValidationError")
          /\ UNCHANGED db
     ELSE IF DuplicateKey(invoices, "invoiceNumber", NumberFor(invoices))
     THEN /\ last' = Response("convertToInvoice", q, "DuplicateKey")
          /\ UNCHANGED db
     ELSE /\ invoices' = Put(invoices, i,
                              InvoicePreSave([NewInvoice(<<>>)
                                                EXCEPT !.invoiceNumber = NumberFor(invoices),
                                                       !.quotation = q]))
          /\ quotations' = [quotations EXCEPT
                ![q] = QuotationPreSave([@ EXCEPT !.status = "converted",
                                                  !.convertedToInvoice = i,
                                                  !.conversionDate = Now])]
          /\ last' = Response("convertToInvoice", q, "ok")
          /\ UNCHANGED <<products, movements, purchases, clients, suppliers, deleted>>

\* A request is served; the history bound counts it when it changed the
\* database.
ServedWithin(bound, handler) ==
  /\ handler
  /\ requests' = IF db' = db THEN requests ELSE requests + 1
  /\ requests' <= bound
  /\ UNCHANGED procs
  /\ deducted' = [i \in InvoiceIds |->
        IF /\ i \in DOMAIN invoices /\ i \in DOMAIN invoices'
           /\ ~invoices[i].stockDeducted /\ invoices'[i].stockDeducted
        THEN [known |-> TRUE, products |-> products]
        ELSE IF products' # products
        THEN [known |-> FALSE, products |-> deducted[i].products]
        ELSE deducted[i]]

Served(handler) == ServedWithin(MaxRequests, handler)

Next ==
  \/ \E p \in Products, q \in StockQuantities, c \in UnitCosts, w \in BOOLEAN :
        Served(receiveStock(p, q, c, w))
  \/ \E p \in Products, q \in StockQuantities, r \in AdjustReasons, t \in AdjustTypes :
        Served(adjustStock(p, q, r, t))
  \/ \E k \in 1..Len(movements) : Served(deleteStockMovement(k))
  \/ \E i \in InvoiceIds, items \in InvoiceItemLists : Served(createInvoice(i, items, NoQuotation))
  \/ \E i \in InvoiceIds, items \in InvoiceItemLists : Served(updateInvoice(i, items))
  \/ \E i \in InvoiceIds : Served(deleteInvoice(i))
  \/ \E i \in InvoiceIds : Served(confirmInvoice(i))
  \/ \E i \in InvoiceIds, amount \in PayAmounts : Served(recordInvoicePayment(i, amount))
  \/ \E i \in InvoiceIds : Served(cancelInvoice(i))
  \/ \E u \in PurchaseIds, items \in PurchaseItemLists : Served(createPurchase(u, items))
  \/ \E u \in PurchaseIds, items \in PurchaseItemLists : Served(updatePurchase(u, items))
  \/ \E u \in PurchaseIds : Served(deletePurchase(u))
  \/ \E u \in PurchaseIds : Served(receivePurchase(u))
  \/ \E u \in PurchaseIds, amount \in PayAmounts, m \in PayMethods :
        Served(recordPurchasePayment(u, amount, m))
  \/ \E u \in PurchaseIds : Served(cancelPurchase(u))

Spec == Init /\ [][Next]_vars

\* The same requests on products created without stock (the schema default
\* of currentStock).
InitOutOfStock ==
  /\ products = [p \in Products |-> [currentStock |-> 0, averageCost |-> Quotient(0, 1)]]
  /\ movements = <<>>
  /\ invoices = [i \in {} |-> 0]
  /\ purchases = [u \in {} |-> 0]
  /\ clients = [c \in {TheClient} |-> [outstandingBalance |-> 0, totalPurchases |-> 0]]
  /\ suppliers = [s \in {TheSupplier} |-> [totalPurchases |-> 0]]
  /\ quotations = [q \in {} |-> 0]
  /\ deleted = {}
  /\ requests = 0
  /\ deducted = [i \in InvoiceIds |-> [known |-> FALSE, products |-> products]]
  /\ last = Response("none", "none", "none")
  /\ procs = [r \in Procs |-> Idle]

SpecOutOfStock == InitOutOfStock /\ [][Next]_vars

\* The same requests, and payments whose amount the payment schema refuses.
NextWithInvalidPayment ==
  \/ Next
  \/ \E i \in InvoiceIds, amount \in InvalidPayAmounts : Served(recordInvoicePayment(i, amount))

SpecInvalidPayment == Init /\ [][NextWithInvalidPayment]_vars

MaxInvoiceRequests == 5

InvoiceServed(handler) == ServedWithin(MaxInvoiceRequests, handler)

\* The life of one invoice of a client whose outstandingBalance starts at 0,
\* with payments sent only once the invoice has left 'draft' (so that the
\* invoice is confirmed by confirmInvoice, not by a first payment).
ClientBalanceNext ==
  \/ \E i \in InvoiceIds, items \in InvoiceItemLists : InvoiceServed(createInvoice(i, items, NoQuotation))
  \/ \E i \in InvoiceIds, items \in InvoiceItemLists : InvoiceServed(updateInvoice(i, items))
  \/ \E i \in InvoiceIds : InvoiceServed(confirmInvoice(i))
  \/ \E i \in InvoiceIds, amount \in PayAmounts :
        /\ i \in DOMAIN invoices
        /\ invoices[i].status # "draft"
        /\ InvoiceServed(recordInvoicePayment(i, amount))
  \/ \E i \in InvoiceIds : InvoiceServed(cancelInvoice(i))

SpecClientBalance == Init /\ [][ClientBalanceNext]_vars

\* The same requests, and product updates whose body carries currentStock.
NextWithProductUpdate ==
  \/ Next
  \/ \E p \in Products, currentStock \in ProductStockInputs :
        Served(updateProduct(p, currentStock))

SpecProductUpdate == Init /\ [][NextWithProductUpdate]_vars

\* The requests that move stock, with stock adjustments of any reason, type
\* and quantity.
NextWithAnyAdjustment ==
  \/ \E p \in Products, q \in StockQuantities, c \in UnitCosts, w \in BOOLEAN :
        Served(receiveStock(p, q, c, w))
  \/ \E p \in Products, q \in AnyAdjustQuantities, reason \in AnyAdjustReasons,
        type \in AnyAdjustTypes :
        Served(adjustStock(p, q, reason, type))
  \/ \E k \in 1..Len(movements) : Served(deleteStockMovement(k))
  \/ \E i \in InvoiceIds, items \in InvoiceItemLists : Served(createInvoice(i, items, NoQuotation))
  \/ \E i \in InvoiceIds : Served(confirmInvoice(i))
  \/ \E i \in InvoiceIds : Served(cancelInvoice(i))

SpecAnyAdjustment == Init /\ [][NextWithAnyAdjustment]_vars

\* The requests of the stock ledger, with edits of its movements.
NextWithMovementUpdate ==
  \/ \E p \in Products, q \in StockQuantities, c \in UnitCosts, w \in BOOLEAN :
        Served(receiveStock(p, q, c, w))
  \/ \E p \in Products, q \in StockQuantities, r \in AdjustReasons, t \in AdjustTypes :
        Served(adjustStock(p, q, r, t))
  \/ \E k \in 1..Len(movements) : Served(deleteStockMovement(k))
  \/ \E k \in 1..Len(movements), body \in MovementBodies :
        Served(updateStockMovement(k, body))
  \/ \E i \in InvoiceIds, items \in InvoiceItemLists : Served(createInvoice(i, items, NoQuotation))
  \/ \E i \in InvoiceIds : Served(confirmInvoice(i))

SpecMovementUpdate == Init /\ [][NextWithMovementUpdate]_vars

\* The quotation lifecycle, with the invoice requests that reach a quotation.
MaxQuotationRequests == 5

QuotationServed(handler) == ServedWithin(MaxQuotationRequests, handler)

QuotationNext ==
  \/ \E q \in QuotationIds, items \in QuotationItemLists :
        QuotationServed(createQuotation(q, items))
  \/ \E q \in QuotationIds, body \in QuotationBodies :
        QuotationServed(updateQuotation(q, body))
  \/ \E q \in QuotationIds : QuotationServed(deleteQuotation(q))
  \/ \E q \in QuotationIds : QuotationServed(approveQuotation(q))
  \/ \E q \in QuotationIds, i \in QuotedInvoiceIds : QuotationServed(convertToInvoice(q, i))
  \/ \E i \in QuotedInvoiceIds, items \in {<<>>, <<ItemInput("p1", 1, Cur(1000), 0, "A", 0)>>},
        q \in QuotationIds \cup {NoQuotation} :
        QuotationServed(createInvoice(i, items, q))
  \/ \E i \in QuotedInvoiceIds : QuotationServed(confirmInvoice(i))
  \/ \E i \in QuotedInvoiceIds : QuotationServed(deleteInvoice(i))
  \/ \E i \in QuotedInvoiceIds : QuotationServed(cancelInvoice(i))

SpecQuotation == Init /\ [][QuotationNext]_vars

\* ------------------------------------------ handlers, await by await ----
\* Two requests are served side by side.  A handler runs without interruption
\* between two awaits; every awaited database call is one step.  A document
\* that save() writes is the one the request read, with the fields the handler
\* assigned: product.save() writes the currentStock the handler computed from
\* the stock it read.  receiveStock is the request without a supplier.

\* the invoices and the quotation that exist when the two requests arrive:
\* i1 and i2 as createInvoice made them, q1 approved, without line items
ConcurrentInvoiceItems ==
  [i \in QuotedInvoiceIds |->
     IF i = "i1" THEN <<ItemInput("p1", 1, Cur(1000), 0, "A", 0)>>
     ELSE <<ItemInput("p1", 1, Cur(400), 0, "A", 0), ItemInput("p2", 1, Cur(500), 0, "B", 18)>>]

\* the _id of the invoice a convertToInvoice request creates
CreatedInvoiceId == [r \in Procs |-> IF r = 1 THEN "i3" ELSE "i4"]

InitConcurrent ==
  /\ products = [p \in Products |-> [currentStock |-> StockAtCreation[p],
                                      averageCost |-> Quotient(0, 1)]]
  /\ movements = <<>>
  /\ invoices = [i \in QuotedInvoiceIds |->
                   InvoicePreSave([NewInvoice(processedItems(ConcurrentInvoiceItems[i]))
                                     EXCEPT !.invoiceNumber =
                                              GeneratedNumber(IF i = "i1" THEN 0 ELSE 1)])]
  /\ purchases = [u \in {} |-> 0]
  /\ clients = [c \in {TheClient} |-> [outstandingBalance |-> 0, totalPurchases |-> 0]]
  /\ suppliers = [s \in {TheSupplier} |-> [totalPurchases |-> 0]]
  /\ quotations = [q \in QuotationIds |->
                     QuotationPreSave([NewQuotation(<<>>) EXCEPT !.quotationNumber = GeneratedNumber(0),
                                                                 !.status = "approved"])]
  /\ deleted = {}
  /\ requests = 0
  /\ deducted = [i \in InvoiceIds |-> [known |-> FALSE, products |-> products]]
  /\ last = Response("none", "none", "none")
  /\ procs = [r \in Procs |-> Idle]

\* the request r goes on to pc, keeping what it has read
Goto(r, pc) == procs' = [procs EXCEPT ![r].pc = pc]

\* the request r answers
Respond(r, result) ==
  /\ procs' = [procs EXCEPT ![r].pc = "done"]
  /\ last' = Response(procs[r].op, procs[r].doc, result)

\* receiveStock: Product.findById
receiveStockFindProduct(r, p, q, unitCost) ==
  /\ procs[r].pc = "idle"
  /\ procs' = [procs EXCEPT ![r] = [Idle EXCEPT !.pc = "receiveStock:create",
                                                !.op = "receiveStock", !.doc = p,
                                                !.quantity = q, !.unitCost = unitCost,
                                                !.product = products[p]]]
  /\ UNCHANGED <<db, requests, deducted, last>>

\* receiveStock: StockMovement.create
receiveStockCreateMovement(r) ==
  /\ procs[r].pc = "receiveStock:create"
  /\ LET previousStock == procs[r].product.currentStock
         newStock == previousStock + procs[r].quantity
     IN movements' = Append(movements,
           Movement(procs[r].doc, "in", "purchase", procs[r].quantity,
                    previousStock, newStock, "none", "none"))
  /\ Goto(r, "receiveStock:save")
  /\ UNCHANGED <<products, invoices, purchases, clients, suppliers, quotations, deleted,
                 requests, deducted, last>>

\* receiveStock: product.save()
receiveStockSaveProduct(r) ==
  /\ procs[r].pc = "receiveStock:save"
  /\ LET previousStock == procs[r].product.currentStock
     IN products' = [products EXCEPT
           ![procs[r].doc].currentStock = previousStock + procs[r].quantity,
           ![procs[r].doc].averageCost =
              WeightedAverage(previousStock, procs[r].product.averageCost,
                              procs[r].quantity, procs[r].unitCost)]
  /\ Respond(r, "ok")
  /\ UNCHANGED <<movements, invoices, purchases, clients, suppliers, quotations, deleted,
                 requests, deducted>>

\* where confirmInvoice goes after the item before item k: the next item of the
\* loop, or invoice.save()
confirmInvoiceNext(items, k) ==
  IF k > Len(items) THEN "confirmInvoice:save" ELSE "confirmInvoice:product"

\* confirmInvoice: Invoice.findById and the status check
confirmInvoiceFind(r, i) ==
  /\ procs[r].pc = "idle"
  /\ i \in DOMAIN invoices
  /\ IF invoices[i].status # "draft"
     THEN /\ procs' = [procs EXCEPT ![r] = [Idle EXCEPT !.pc = "done",
                                                        !.op = "confirmInvoice", !.doc = i]]
          /\ last' = Response("confirmInvoice", i, "InvalidState")
     ELSE /\ procs' = [procs EXCEPT ![r] =
                [Idle EXCEPT !.pc = confirmInvoiceNext(invoices[i].items, 1),
                             !.op = "confirmInvoice", !.doc = i, !.k = 1,
                             !.document = invoices[i]]]
          /\ last' = last
  /\ UNCHANGED <<db, requests, deducted>>

\* confirmInvoice: Product.findById of item k and the stock check
confirmInvoiceFindProduct(r) ==
  /\ procs[r].pc = "confirmInvoice:product"
  /\ LET item == procs[r].document.items[procs[r].k]
         product == products[item.product]
     IN IF product.currentStock < item.quantity
        THEN Respond(r, "InsufficientStock")
        ELSE /\ procs' = [procs EXCEPT ![r].pc = "confirmInvoice:create",
                                       ![r].product = product]
             /\ last' = last
  /\ UNCHANGED <<db, requests, deducted>>

\* confirmInvoice: StockMovement.create of item k
confirmInvoiceCreateMovement(r) ==
  /\ procs[r].pc = "confirmInvoice:create"
  /\ LET item == procs[r].document.items[procs[r].k]
         previousStock == procs[r].product.currentStock
         newStock == previousStock - item.quantity
     IN movements' = Append(movements,
           Movement(item.product, "out", "sale", item.quantity,
                    previousStock, newStock, "Invoice", procs[r].doc))
  /\ Goto(r, "confirmInvoice:saveProduct")
  /\ UNCHANGED <<products, invoices, purchases, clients, suppliers, quotations, deleted,
                 requests, deducted, last>>

\* confirmInvoice: product.save() of item k
confirmInvoiceSaveProduct(r) ==
  /\ procs[r].pc = "confirmInvoice:saveProduct"
  /\ LET item == procs[r].document.items[procs[r].k]
     IN products' = [products EXCEPT ![item.product].currentStock =
                                       procs[r].product.currentStock - item.quantity]
  /\ procs' = [procs EXCEPT
        ![r].k = @ + 1,
        ![r].pc = confirmInvoiceNext(procs[r].document.items, procs[r].k + 1)]
  /\ UNCHANGED <<movements, invoices, purchases, clients, suppliers, quotations, deleted,
                 requests, deducted, last>>

\* confirmInvoice: invoice.save()
confirmInvoiceSave(r) ==
  /\ procs[r].pc = "confirmInvoice:save"
  /\ LET saved == InvoicePreSave([procs[r].document EXCEPT !.status = "confirmed",
                                                           !.stockDeducted = TRUE])
     IN /\ invoices' = [invoices EXCEPT ![procs[r].doc] = saved]
        /\ procs' = [procs EXCEPT
              ![r].document = saved,
              ![r].pc = IF saved.quotation # NoQuotation
                        THEN "confirmInvoice:quotation" ELSE "confirmInvoice:client"]
  /\ UNCHANGED <<products, movements, purchases, clients, suppliers, quotations, deleted,
                 requests, deducted, last>>

\* confirmInvoice: Quotation.findByIdAndUpdate
confirmInvoiceUpdateQuotation(r) ==
  /\ procs[r].pc = "confirmInvoice:quotation"
  /\ quotations' =
       IF procs[r].document.quotation \in DOMAIN quotations
       THEN [quotations EXCEPT ![procs[r].document.quotation] =
               [@ EXCEPT !.status = "converted",
                         !.convertedToInvoice = procs[r].doc,
                         !.conversionDate = Now]]
       ELSE quotations
  /\ Goto(r, "confirmInvoice:client")
  /\ UNCHANGED <<products, movements, invoices, purchases, clients, suppliers, deleted,
                 requests, deducted, last>>

\* confirmInvoice: Client.findById
confirmInvoiceFindClient(r) ==
  /\ procs[r].pc = "confirmInvoice:client"
  /\ procs' = [procs EXCEPT ![r].pc = "confirmInvoice:saveClient",
                            ![r].client = clients[TheClient]]
  /\ UNCHANGED <<db, requests, deducted, last>>

\* confirmInvoice: client.save()
confirmInvoiceSaveClient(r) ==
  /\ procs[r].pc = "confirmInvoice:saveClient"
  /\ clients' = [clients EXCEPT ![TheClient].outstandingBalance =
                    procs[r].client.outstandingBalance + procs[r].document.roundedAmount]
  /\ Respond(r, "ok")
  /\ UNCHANGED <<products, movements, invoices, purchases, suppliers, quotations, deleted,
                 requests, deducted>>

\* convertToInvoice: Quotation.findById and the two checks
convertToInvoiceFind(r, q) ==
  /\ procs[r].pc = "idle"
  /\ q \in DOMAIN quotations
  /\ LET arrived == [Idle EXCEPT !.op = "convertToInvoice", !.doc = q,
                                 !.document = quotations[q]]
     IN IF QuotationNotApproved(quotations[q])
        THEN /\ procs' = [procs EXCEPT ![r] = [arrived EXCEPT !.pc = "done"]]
             /\ last' = Response("convertToInvoice", q, "InvalidState")
        ELSE IF quotations[q].convertedToInvoice # NoInvoice
        THEN /\ procs' = [procs EXCEPT ![r] = [arrived EXCEPT !.pc = "done"]]
             /\ last' = Response("convertToInvoice", q, "AlreadyConverted")
        ELSE /\ procs' = [procs EXCEPT ![r] = [arrived EXCEPT !.pc = "convertToInvoice:create"]]
             /\ last' = last
  /\ UNCHANGED <<db, requests, deducted>>

\* convertToInvoice: Invoice.create
convertToInvoiceCreate(r) ==
  /\ procs[r].pc = "convertToInvoice:create"
  /\ IF ~QuotationItemsAreInvoiceItems(procs[r].document.items)
     THEN /\ Respond(r, "ValidationError")
          /\ invoices' = invoices
     ELSE IF DuplicateKey(invoices, "invoiceNumber", NumberFor(invoices))
     THEN /\ Respond(r, "DuplicateKey")
          /\ invoices' = invoices
     ELSE /\ invoices' = Put(invoices, CreatedInvoiceId[r],
                              InvoicePreSave([NewInvoice(<<>>)
                                                EXCEPT !.invoiceNumber = NumberFor(invoices),
                                                       !.quotation = procs[r].doc]))
          /\ Goto(r, "convertToInvoice:save")
          /\ last' = last
  /\ UNCHANGED <<products, movements, purchases, clients, suppliers, quotations, deleted,
                 requests, deducted>>

\* convertToInvoice: quotation.save()
convertToInvoiceSave(r) ==
  /\ procs[r].pc = "convertToInvoice:save"
  /\ quotations' = [quotations EXCEPT ![procs[r].doc] =
        QuotationPreSave([procs[r].document EXCEPT !.status = "converted",
                                                   !.convertedToInvoice = CreatedInvoiceId[r],
                                                   !.conversionDate = Now])]
  /\ Respond(r, "ok")
  /\ UNCHANGED <<products, movements, invoices, purchases, clients, suppliers, deleted,
                 requests, deducted>>

\* where cancelPurchase goes after the item before item k: the next item of the
\* loop, or the supplier update
cancelPurchaseNext(purchase, k) ==
  IF purchase.stockAdded /\ k <= Len(purchase.items)
  THEN "cancelPurchase:product" ELSE "cancelPurchase:supplier"

\* cancelPurchase: Purchase.findById and the status check
cancelPurchaseFind(r, u) ==
  /\ procs[r].pc = "idle"
  /\ u \in DOMAIN purchases
  /\ IF CannotCancelPaid(purchases[u])
     THEN /\ procs' = [procs EXCEPT ![r] = [Idle EXCEPT !.pc = "done",
                                                        !.op = "cancelPurchase", !.doc = u]]
          /\ last' = Response("cancelPurchase", u, "CannotCancelPaidDocument")
     ELSE /\ procs' = [procs EXCEPT ![r] =
                [Idle EXCEPT !.pc = cancelPurchaseNext(purchases[u], 1),
                             !.op = "cancelPurchase", !.doc = u, !.k = 1,
                             !.document = purchases[u]]]
          /\ last' = last
  /\ UNCHANGED <<db, requests, deducted>>

\* cancelPurchase: Product.findById of item k
cancelPurchaseFindProduct(r) ==
  /\ procs[r].pc = "cancelPurchase:product"
  /\ procs' = [procs EXCEPT
        ![r].pc = "cancelPurchase:create",
        ![r].product = products[procs[r].document.items[procs[r].k].product]]
  /\ UNCHANGED <<db, requests, deducted, last>>

\* cancelPurchase: StockMovement.create of item k
cancelPurchaseCreateMovement(r) ==
  /\ procs[r].pc = "cancelPurchase:create"
  /\ LET item == procs[r].document.items[procs[r].k]
         previousStock == procs[r].product.currentStock
         newStock == ReversedStock(previousStock, item.quantity)
     IN movements' = Append(movements,
           Movement(item.product, "out", "return", item.quantity,
                    previousStock, newStock, "Purchase", procs[r].doc))
  /\ Goto(r, "cancelPurchase:saveProduct")
  /\ UNCHANGED <<products, invoices, purchases, clients, suppliers, quotations, deleted,
                 requests, deducted, last>>

\* cancelPurchase: product.save() of item k
cancelPurchaseSaveProduct(r) ==
  /\ procs[r].pc = "cancelPurchase:saveProduct"
  /\ LET item == procs[r].document.items[procs[r].k]
     IN products' = [products EXCEPT ![item.product].currentStock =
                       ReversedStock(procs[r].product.currentStock, item.quantity)]
  /\ procs' = [procs EXCEPT
        ![r].k = @ + 1,
        ![r].pc = cancelPurchaseNext(procs[r].document, procs[r].k + 1)]
  /\ UNCHANGED <<movements, invoices, purchases, clients, suppliers, quotations, deleted,
                 requests, deducted, last>>

\* cancelPurchase: Supplier.findById and supplier.save(), which persists no
\* path of the Supplier schema
cancelPurchaseSaveSupplier(r) ==
  /\ procs[r].pc = "cancelPurchase:supplier"
  /\ Goto(r, "cancelPurchase:save")
  /\ UNCHANGED <<db, requests, deducted, last>>

\* cancelPurchase: purchase.save()
cancelPurchaseSave(r) ==
  /\ procs[r].pc = "cancelPurchase:save"
  /\ purchases' = [purchases EXCEPT ![procs[r].doc] =
        PurchasePreSave([procs[r].document EXCEPT !.status = "cancelled"])]
  /\ Respond(r, "ok")
  /\ UNCHANGED <<products, movements, invoices, clients, suppliers, quotations, deleted,
                 requests, deducted>>

NextConcurrent ==
  \/ \E r \in Procs, p \in Products, q \in StockQuantities, c \in UnitCosts :
        receiveStockFindProduct(r, p, q, c)
  \/ \E r \in Procs : receiveStockCreateMovement(r)
  \/ \E r \in Procs : receiveStockSaveProduct(r)
  \/ \E r \in Procs, i \in DOMAIN invoices : confirmInvoiceFind(r, i)
  \/ \E r \in Procs : confirmInvoiceFindProduct(r)
  \/ \E r \in Procs : confirmInvoiceCreateMovement(r)
  \/ \E r \in Procs : confirmInvoiceSaveProduct(r)
  \/ \E r \in Procs : confirmInvoiceSave(r)
  \/ \E r \in Procs : confirmInvoiceUpdateQuotation(r)
  \/ \E r \in Procs : confirmInvoiceFindClient(r)
  \/ \E r \in Procs : confirmInvoiceSaveClient(r)
  \/ \E r \in Procs, q \in QuotationIds : convertToInvoiceFind(r, q)
  \/ \E r \in Procs : convertToInvoiceCreate(r)
  \/ \E r \in Procs : convertToInvoiceSave(r)

SpecConcurrent == InitConcurrent /\ [][NextConcurrent]_vars

\* recordPayment of an invoice: whether the request that read this document
\* runs the auto-confirmation
AutoConfirms(document) == ~document.stockDeducted /\ document.status = "draft"

\* where recordPayment goes after the item before item k: the next item of the
\* auto-confirmation, or the client update
recordInvoicePaymentNext(document, k) ==
  IF AutoConfirms(document) /\ k <= Len(document.items)
  THEN "recordPayment:product" ELSE "recordPayment:client"

\* recordPayment: Invoice.findById and the two checks
recordInvoicePaymentFind(r, i, amount) ==
  /\ procs[r].pc = "idle"
  /\ i \in DOMAIN invoices
  /\ LET arrived == [Idle EXCEPT !.op = "recordInvoicePayment", !.doc = i, !.amount = amount]
     IN IF invoices[i].status = "cancelled"
        THEN /\ procs' = [procs EXCEPT ![r] = [arrived EXCEPT !.pc = "done"]]
             /\ last' = Response("recordInvoicePayment", i, "InvalidState")
        ELSE IF InvoicePaymentExceedsBalance(invoices[i], amount)
        THEN /\ procs' = [procs EXCEPT ![r] = [arrived EXCEPT !.pc = "done"]]
             /\ last' = Response("recordInvoicePayment", i, "PaymentExceedsBalance")
        ELSE /\ procs' = [procs EXCEPT ![r] =
                   [arrived EXCEPT !.pc = recordInvoicePaymentNext(invoices[i], 1),
                                   !.k = 1, !.document = invoices[i]]]
             /\ last' = last
  /\ UNCHANGED <<db, requests, deducted>>

\* recordPayment: Product.findById of item k; an item without enough stock is
\* passed over
recordInvoicePaymentFindProduct(r) ==
  /\ procs[r].pc = "recordPayment:product"
  /\ LET item == procs[r].document.items[procs[r].k]
         product == products[item.product]
     IN IF product.currentStock >= item.quantity
        THEN procs' = [procs EXCEPT ![r].pc = "recordPayment:create", ![r].product = product]
        ELSE procs' = [procs EXCEPT
               ![r].k = @ + 1,
               ![r].pc = recordInvoicePaymentNext(procs[r].document, procs[r].k + 1)]
  /\ UNCHANGED <<db, requests, deducted, last>>

\* recordPayment: StockMovement.create of item k
recordInvoicePaymentCreateMovement(r) ==
  /\ procs[r].pc = "recordPayment:create"
  /\ LET item == procs[r].document.items[procs[r].k]
         previousStock == procs[r].product.currentStock
         newStock == previousStock - item.quantity
     IN movements' = Append(movements,
           Movement(item.product, "out", "sale", item.quantity,
                    previousStock, newStock, "Invoice", procs[r].doc))
  /\ Goto(r, "recordPayment:saveProduct")
  /\ UNCHANGED <<products, invoices, purchases, clients, suppliers, quotations, deleted,
                 requests, deducted, last>>

\* recordPayment: product.save() of item k
recordInvoicePaymentSaveProduct(r) ==
  /\ procs[r].pc = "recordPayment:saveProduct"
  /\ LET item == procs[r].document.items[procs[r].k]
     IN products' = [products EXCEPT ![item.product].currentStock =
                                       procs[r].product.currentStock - item.quantity]
  /\ procs' = [procs EXCEPT
        ![r].k = @ + 1,
        ![r].pc = recordInvoicePaymentNext(procs[r].document, procs[r].k + 1)]
  /\ UNCHANGED <<movements, invoices, purchases, clients, suppliers, quotations, deleted,
                 requests, deducted, last>>

\* recordPayment: Client.findById
recordInvoicePaymentFindClient(r) ==
  /\ procs[r].pc = "recordPayment:client"
  /\ procs' = [procs EXCEPT ![r].pc = "recordPayment:saveClient",
                            ![r].client = clients[TheClient]]
  /\ UNCHANGED <<db, requests, deducted, last>>

\* recordPayment: client.save()
recordInvoicePaymentSaveClient(r) ==
  /\ procs[r].pc = "recordPayment:saveClient"
  /\ clients' = [clients EXCEPT
        ![TheClient].totalPurchases = procs[r].client.totalPurchases + procs[r].amount,
        ![TheClient].outstandingBalance =
           OutstandingAfterPayment(procs[r].client.outstandingBalance, procs[r].amount)]
  /\ Goto(r, "recordPayment:save")
  /\ UNCHANGED <<products, movements, invoices, purchases, suppliers, quotations, deleted,
                 requests, deducted, last>>

\* document.save() sends what the request changed: a pushed payment entry is
\* appended to the stored list ($push), a path whose value the request changed
\* is set to the request's value, every other path stays as stored
ModifiedPathsSaved(persisted, read, held) ==
  [path \in DOMAIN held |->
     IF path = "payments"
     THEN persisted.payments
            \o SubSeq(held.payments, Len(read.payments) + 1, Len(held.payments))
     ELSE IF held[path] # read[path] THEN held[path] ELSE persisted[path]]

\* recordPayment: invoice.save()
recordInvoicePaymentSave(r) ==
  /\ procs[r].pc = "recordPayment:save"
  /\ LET read == procs[r].document
         paid == [read EXCEPT !.payments = Append(@, procs[r].amount),
                              !.amountPaid = @ + procs[r].amount]
         confirmed == IF AutoConfirms(read)
                      THEN [paid EXCEPT !.stockDeducted = TRUE, !.status = "confirmed"]
                      ELSE paid
     IN IF PaymentIsValid(procs[r].amount) /\ procs[r].doc \in DOMAIN invoices
        THEN /\ invoices' = [invoices EXCEPT ![procs[r].doc] =
                   ModifiedPathsSaved(@, read, InvoicePreSave(confirmed))]
             /\ Respond(r, "ok")
        ELSE /\ invoices' = invoices
             /\ Respond(r, "ValidationError")
  /\ UNCHANGED <<products, movements, purchases, clients, suppliers, quotations, deleted,
                 requests, deducted>>

\* Whole requests that set the scene, and two requests served await by await,
\* in any order.
MaxSceneRequests == 3

SceneServed(handler) == ServedWithin(MaxSceneRequests, handler)

NextInterleaved ==
  \/ \E p \in Products, q \in StockQuantities, r \in AdjustReasons, t \in AdjustTypes :
        SceneServed(adjustStock(p, q, r, t))
  \/ \E i \in InvoiceIds, items \in InvoiceItemLists :
        SceneServed(createInvoice(i, items, NoQuotation))
  \/ \E u \in PurchaseIds, items \in PurchaseItemLists : SceneServed(createPurchase(u, items))
  \/ \E u \in PurchaseIds : SceneServed(receivePurchase(u))
  \/ \E r \in Procs, i \in InvoiceIds : confirmInvoiceFind(r, i)
  \/ \E r \in Procs : confirmInvoiceFindProduct(r)
  \/ \E r \in Procs : confirmInvoiceCreateMovement(r)
  \/ \E r \in Procs : confirmInvoiceSaveProduct(r)
  \/ \E r \in Procs : confirmInvoiceSave(r)
  \/ \E r \in Procs : confirmInvoiceFindClient(r)
  \/ \E r \in Procs : confirmInvoiceSaveClient(r)
  \/ \E r \in Procs, u \in PurchaseIds : cancelPurchaseFind(r, u)
  \/ \E r \in Procs : cancelPurchaseFindProduct(r)
  \/ \E r \in Procs : cancelPurchaseCreateMovement(r)
  \/ \E r \in Procs : cancelPurchaseSaveProduct(r)
  \/ \E r \in Procs : cancelPurchaseSaveSupplier(r)
  \/ \E r \in Procs : cancelPurchaseSave(r)

SpecInterleaved == Init /\ [][NextInterleaved]_vars

\* An invoice is created and confirmed, and two payments are served await by
\* await, in any order.
NextConcurrentPayment ==
  \/ \E i \in InvoiceIds, items \in InvoiceItemLists :
        SceneServed(createInvoice(i, items, NoQuotation))
  \/ \E i \in InvoiceIds : SceneServed(confirmInvoice(i))
  \/ \E r \in Procs, i \in InvoiceIds, amount \in PayAmounts :
        recordInvoicePaymentFind(r, i, amount)
  \/ \E r \in Procs : recordInvoicePaymentFindProduct(r)
  \/ \E r \in Procs : recordInvoicePaymentCreateMovement(r)
  \/ \E r \in Procs : recordInvoicePaymentSaveProduct(r)
  \/ \E r \in Procs : recordInvoicePaymentFindClient(r)
  \/ \E r \in Procs : recordInvoicePaymentSaveClient(r)
  \/ \E r \in Procs : recordInvoicePaymentSave(r)

SpecConcurrentPayment == Init /\ [][NextConcurrentPayment]_vars

\* The lifecycle of two invoices that order the same products.
NextInvoices ==
  \/ \E i \in QuotedInvoiceIds, items \in InvoiceItemLists :
        InvoiceServed(createInvoice(i, items, NoQuotation))
  \/ \E i \in QuotedInvoiceIds : InvoiceServed(confirmInvoice(i))
  \/ \E i \in QuotedInvoiceIds, amount \in PayAmounts :
        InvoiceServed(recordInvoicePayment(i, amount))
  \/ \E i \in QuotedInvoiceIds : InvoiceServed(cancelInvoice(i))

SpecInvoices == Init /\ [][NextInvoices]_vars

\* Creations and deletions of drafts of the three numbered collections.
NextNumbering ==
  \/ \E i \in NumberedInvoiceIds : Served(createInvoice(i, <<>>, NoQuotation))
  \/ \E i \in NumberedInvoiceIds : Served(deleteInvoice(i))
  \/ \E u \in NumberedPurchaseIds, items \in PurchaseItemLists : Served(createPurchase(u, items))
  \/ \E u \in NumberedPurchaseIds : Served(deletePurchase(u))
  \/ \E q \in NumberedQuotationIds : Served(createQuotation(q, <<>>))
  \/ \E q \in NumberedQuotationIds : Served(deleteQuotation(q))

SpecNumbering == Init /\ [][NextNumbering]_vars

----------------------------------------------------------------------------
\* What the claims speak about

\* the signed quantity of a movement of the ledger: what it added to the
\* stock of its product
SignedQuantity(m) ==
  IF m.type = "in" THEN m.quantity
  ELSE IF m.type = "out" THEN 0 - m.quantity
  ELSE IF m.newStock >= m.previousStock THEN m.quantity ELSE 0 - m.quantity

RECURSIVE LedgerSum(_, _)
LedgerSum(movs, p) ==
  IF movs = <<>> THEN 0
  ELSE (IF Head(movs).product = p THEN SignedQuantity(Head(movs)) ELSE 0)
         + LedgerSum(Tail(movs), p)

\* how many movements of the ledger carry this reason for this product and
\* reference this document
CountMovements(movs, reason, refModel, refDoc, p) ==
  Cardinality({k \in 1..Len(movs) :
                 /\ movs[k].reason = reason
                 /\ movs[k].referenceModel = refModel
                 /\ movs[k].referenceDocument = refDoc
                 /\ movs[k].product = p})

\* how many line items of the document are about this product
CountItems(doc, p) ==
  Cardinality({k \in 1..Len(doc.items) : doc.items[k].product = p})

\* C1: at every moment, for every product, currentStock equals the stock at
\* creation plus the sum of the signed quantities of the movements of the
\* ledger (the deleted ones are no longer in it).
StockMatchesLedger ==
  \A p \in Products :
    products[p].currentStock = StockAtCreation[p] + LedgerSum(movements, p)

\* C2: when an invoice is cancelled and no other request has changed a product
\* since the request that deducted its stock (confirmInvoice, or the first
\* payment), every product's currentStock is back at its value before that
\* request.
CancelRestoresStock ==
  [][\A i \in InvoiceIds :
       (/\ last'.op = "cancelInvoice" /\ last'.doc = i /\ last'.result = "ok"
        /\ deducted[i].known)
       => \A p \in Products :
            products'[p].currentStock = deducted[i].products[p].currentStock]_vars

\* C3: a confirmInvoice call rejected for insufficient stock leaves the ledger,
\* every product's currentStock and the invoice as they were; the invoice is
\* still a draft with stockDeducted = false.
RejectedConfirmChangesNothing ==
  [][(last'.op = "confirmInvoice" /\ last'.result = "InsufficientStock")
     => /\ movements' = movements
        /\ products' = products
        /\ invoices' = invoices
        /\ \A i \in DOMAIN invoices' :
             last'.doc = i => /\ invoices'[i].status = "draft"
                              /\ ~invoices'[i].stockDeducted]_vars

\* C4: an accepted cancel of an invoice or a purchase leaves its status
\* 'cancelled', whatever was paid on it, and a cancelled document stays
\* cancelled under every later request.
CancelledIsAbsorbing ==
  [][/\ \A i \in DOMAIN invoices :
          /\ (last'.op = "cancelInvoice" /\ last'.doc = i /\ last'.result = "ok")
             => (i \in DOMAIN invoices' /\ invoices'[i].status = "cancelled")
          /\ invoices[i].status = "cancelled"
             => (i \in DOMAIN invoices' /\ invoices'[i].status = "cancelled")
     /\ \A u \in DOMAIN purchases :
          /\ (last'.op = "cancelPurchase" /\ last'.doc = u /\ last'.result = "ok")
             => (u \in DOMAIN purchases' /\ purchases'[u].status = "cancelled")
          /\ purchases[u].status = "cancelled"
             => (u \in DOMAIN purchases' /\ purchases'[u].status = "cancelled")]_vars

\* C5: a request on a document that is already cancelled adds no movement to
\* the ledger and changes no client or supplier balance, and the ledger holds
\* at most one 'return' movement per line item of a document.
CancelledDocumentIsInert ==
  [][/\ \A i \in DOMAIN invoices :
          (invoices[i].status = "cancelled" /\ last'.doc = i)
          => (movements' = movements /\ clients' = clients /\ suppliers' = suppliers)
     /\ \A u \in DOMAIN purchases :
          (purchases[u].status = "cancelled" /\ last'.doc = u)
          => (movements' = movements /\ clients' = clients /\ suppliers' = suppliers)
     /\ \A i \in DOMAIN invoices', p \in Products :
          CountMovements(movements', "return", "Invoice", i, p) <= CountItems(invoices'[i], p)
     /\ \A u \in DOMAIN purchases', p \in Products :
          CountMovements(movements', "return", "Purchase", u, p)
            <= CountItems(purchases'[u], p)]_vars

\* C6: after a confirmInvoice or recordPayment call on an invoice (a
\* receivePurchase or recordPayment call on a purchase) the ledger holds at most
\* one 'sale' ('purchase') movement per line item of that document.
ForwardEffectAtMostOnce ==
  [][/\ \A i \in DOMAIN invoices', p \in Products :
          (last'.op \in {"confirmInvoice", "recordInvoicePayment"} /\ last'.doc = i)
          => CountMovements(movements', "sale", "Invoice", i, p) <= CountItems(invoices'[i], p)
     /\ \A u \in DOMAIN purchases', p \in Products :
          (last'.op \in {"receivePurchase", "recordPurchasePayment"} /\ last'.doc = u)
          => CountMovements(movements', "purchase", "Purchase", u, p)
               <= CountItems(purchases'[u], p)]_vars

\* C7: a recordPayment call on an invoice or a purchase with an amount greater
\* than the document's balance is rejected and changes nothing in the database.
OverpaymentRejected ==
  [][/\ \A i \in DOMAIN invoices, amount \in PayAmounts :
          (amount > invoices[i].balance /\ recordInvoicePayment(i, amount))
          => /\ UNCHANGED db
             /\ last'.result \in {"PaymentExceedsBalance", "InvalidState"}
     /\ \A u \in DOMAIN purchases, amount \in PayAmounts, m \in PayMethods :
          (amount > purchases[u].balance /\ recordPurchasePayment(u, amount, m))
          => /\ UNCHANGED db
             /\ last'.result \in {"PaymentExceedsBalance", "InvalidState"}]_vars

\* an invoice of 1000 has been paid with 400 and 600, and a further payment
\* has just been rejected for exceeding the balance
OverpaymentRejectedSeen ==
  \E i \in DOMAIN invoices :
    /\ last = Response("recordInvoicePayment", i, "PaymentExceedsBalance")
    /\ invoices[i].roundedAmount = Cur(1000)
    /\ invoices[i].amountPaid = Cur(1000)
    /\ invoices[i].balance = 0

BalanceIsWhatIsLeft ==
  /\ \A i \in DOMAIN invoices :
       /\ invoices[i].balance = invoices[i].roundedAmount - invoices[i].amountPaid
       /\ invoices[i].balance >= 0
  /\ \A u \in DOMAIN purchases :
       /\ purchases[u].balance = purchases[u].roundedAmount - purchases[u].amountPaid
       /\ purchases[u].balance >= 0

ExpectedAverageCost(s0, c0, q, c) ==
  IF s0 > 0 /\ c0.num > 0 THEN WeightedAverage(s0, c0, q, c) ELSE Quotient(c, 1)

\* C18: after receiveStock, receivePurchase and the auto-receive of a purchase
\* payment, of quantity q at unit cost c on a product with prior stock s0 and
\* prior average cost c0, averageCost is (s0*c0 + q*c)/(s0+q) when s0 > 0 and
\* c0 > 0, and c when s0 = 0 or c0 = 0.  (No purchase lists a product twice.)
AverageCostIsWeighted ==
  [][/\ \A p \in Products, q \in StockQuantities, c \in UnitCosts, w \in BOOLEAN :
          receiveStock(p, q, c, w)
          => products'[p].averageCost =
               ExpectedAverageCost(products[p].currentStock, products[p].averageCost, q, c)
     /\ \A u \in DOMAIN purchases :
          (receivePurchase(u) /\ last'.result = "ok")
          => \A k \in 1..Len(purchases[u].items) :
               LET item == purchases[u].items[k]
               IN products'[item.product].averageCost =
                    ExpectedAverageCost(products[item.product].currentStock,
                                        products[item.product].averageCost,
                                        item.quantity, item.unitCost)
     /\ \A u \in DOMAIN purchases, amount \in PayAmounts, m \in PayMethods :
          (/\ recordPurchasePayment(u, amount, m)
           /\ ~purchases[u].stockAdded /\ purchases'[u].stockAdded)
          => \A k \in 1..Len(purchases[u].items) :
               LET item == purchases[u].items[k]
               IN products'[item.product].averageCost =
                    ExpectedAverageCost(products[item.product].currentStock,
                                        products[item.product].averageCost,
                                        item.quantity, item.unitCost)]_vars

\* C19: confirmInvoice, an invoice payment (with its auto-confirmation),
\* cancelPurchase, adjustStock in either direction and deleteStockMovement
\* leave every product's averageCost as it was.
OutboundKeepsAverageCost ==
  [][last'.op \in {"confirmInvoice", "recordInvoicePayment", "cancelPurchase",
                   "adjustStock", "deleteStockMovement"}
     => \A p \in Products : products'[p].averageCost = products[p].averageCost]_vars

\* a received purchase has just been cancelled: its stock went back out of a
\* product that has an average cost
PurchaseReversedAtCost ==
  \E u \in DOMAIN purchases :
    /\ last = Response("cancelPurchase", u, "ok")
    /\ \E k \in 1..Len(movements) :
         /\ movements[k].reason = "return"
         /\ movements[k].referenceDocument = u
         /\ movements[k].newStock < movements[k].previousStock
         /\ products[movements[k].product].averageCost.num > 0

\* C20: every stock movement a request creates has newStock = previousStock +
\* quantity when it is inbound and newStock = previousStock - quantity when it
\* is outbound, and the first one a request creates for a product has the
\* product's currentStock as previousStock.
MovementArithmetic ==
  [][\A k \in (Len(movements) + 1)..Len(movements') :
       LET m == movements'[k]
       IN /\ m.type = "in" => m.newStock = m.previousStock + m.quantity
          /\ m.type = "out" => m.newStock = m.previousStock - m.quantity
          /\ m.type = "adjustment" => \/ m.newStock = m.previousStock + m.quantity
                                      \/ m.newStock = m.previousStock - m.quantity
          /\ (\A j \in (Len(movements) + 1)..(k - 1) : movements'[j].product # m.product)
             => m.previousStock = products[m.product].currentStock]_vars

ConvertedQuotationIsImmutable ==
  [][\A q \in DOMAIN quotations :
       quotations[q].convertedToInvoice # NoInvoice
         => /\ quotations[q].status = "converted"
            /\ q \in DOMAIN quotations'
            /\ quotations'[q] = quotations[q]]_vars

\* C17: a quotation becomes 'converted' only from 'approved' and 'approved'
\* only from 'sent'.
QuotationStatusFlow ==
  [][\A q \in DOMAIN quotations \cap DOMAIN quotations' :
       /\ (quotations'[q].status = "converted" /\ quotations[q].status # "converted")
            => quotations[q].status = "approved"
       /\ (quotations'[q].status = "approved" /\ quotations[q].status # "approved")
            => quotations[q].status = "sent"]_vars

\* C13: a transition is all-or-nothing: a request that failed on one of its
\* writes has left nothing in the database.
FailedWriteLeavesNothing ==
  [][last'.result = "ValidationError" => UNCHANGED db]_vars

\* the two requests have answered
BothDone == \A r \in Procs : procs[r].pc = "done"

\* the movements of one product, in the order of their creation
MovementsOf(p) == SelectSeq(movements, LAMBDA m : m.product = p)

\* C11: two stock-changing requests (receiveStock, confirmInvoice) on different
\* documents that ran side by side have lost no update: currentStock is the
\* starting stock plus the signed quantities of the movements, and the
\* movements of a product form a chain.
ConcurrentStockChangesAllCount ==
  (/\ BothDone
   /\ \A r \in Procs : procs[r].op \in {"receiveStock", "confirmInvoice"}
   /\ procs[1].doc # procs[2].doc)
    => \A p \in Products :
          /\ products[p].currentStock = StockAtCreation[p] + LedgerSum(movements, p)
          /\ \A k \in 1..(Len(MovementsOf(p)) - 1) :
                MovementsOf(p)[k + 1].previousStock = MovementsOf(p)[k].newStock

\* C12: two confirmInvoice requests for the same draft invoice that ran side
\* by side have deducted its stock once and increased the client's
\* outstandingBalance once.
ConcurrentConfirmActsOnce ==
  (/\ BothDone
   /\ \A r \in Procs : procs[r].op = "confirmInvoice"
   /\ procs[1].doc = procs[2].doc)
    => LET i == procs[1].doc
       IN /\ \A p \in Products :
                /\ CountMovements(movements, "sale", "Invoice", i, p)
                     = CountItems(invoices[i], p)
                /\ products[p].currentStock
                     = StockAtCreation[p] - CountItems(invoices[i], p)
          /\ clients[TheClient].outstandingBalance = invoices[i].roundedAmount

\* C15: two convertToInvoice requests for the same approved quotation that ran
\* side by side have created at most one invoice linked to it.
ConcurrentConversionCreatesOne ==
  (/\ BothDone
   /\ \A r \in Procs : procs[r].op = "convertToInvoice"
   /\ procs[1].doc = procs[2].doc)
    => Cardinality({i \in DOMAIN invoices : invoices[i].quotation = procs[1].doc}) <= 1

HasMovement(movs, refModel, refDoc) ==
  \E k \in 1..Len(movs) :
     movs[k].referenceModel = refModel /\ movs[k].referenceDocument = refDoc

\* C22: an update or a delete of an invoice or a purchase that is not a draft
\* is rejected and changes nothing, and no document whose stock side effect
\* has fired (the ledger holds a movement of it) is deleted.
UpdateAndDeleteOnlyOfDrafts ==
  [][/\ \A i \in DOMAIN invoices :
          (last'.op \in {"updateInvoice", "deleteInvoice"} /\ last'.doc = i)
            => /\ invoices[i].status # "draft"
                    => (last'.result = "InvalidState" /\ UNCHANGED db)
               /\ i \notin DOMAIN invoices' => ~HasMovement(movements, "Invoice", i)
     /\ \A u \in DOMAIN purchases :
          (last'.op \in {"updatePurchase", "deletePurchase"} /\ last'.doc = u)
            => /\ purchases[u].status # "draft"
                    => (last'.result = "InvalidState" /\ UNCHANGED db)
               /\ u \notin DOMAIN purchases' => ~HasMovement(movements, "Purchase", u)]_vars

\* the tax of the line items of one tax code, netAmount * taxRate / 100 each
TaxOfCode(items, code) ==
  SeqSum([k \in 1..Len(items) |->
            IF items[k].taxCode = code
            THEN ((items[k].quantity * items[k].price - items[k].discount) * items[k].taxRate)
                    \div 100
            ELSE 0])

\* the line items with the unit price (invoice) or unit cost (purchase) under
\* one name
Priced(doc, isInvoice) ==
  [k \in 1..Len(doc.items) |->
     [quantity |-> doc.items[k].quantity,
      price |-> IF isInvoice THEN doc.items[k].unitPrice ELSE doc.items[k].unitCost,
      discount |-> doc.items[k].discount,
      taxCode |-> doc.items[k].taxCode,
      taxRate |-> doc.items[k].taxRate]]

\* the document totals are the ones derived from its line items
DocumentTotalsDerived(doc, isInvoice) ==
  LET items == Priced(doc, isInvoice)
      subtotal == SeqSum([k \in 1..Len(items) |-> items[k].quantity * items[k].price])
      totalDiscount == SeqSum([k \in 1..Len(items) |-> items[k].discount])
      totalTax == TaxOfCode(items, "A") + TaxOfCode(items, "B")
      grandTotal == subtotal - totalDiscount + totalTax
  IN /\ doc.subtotal = subtotal
     /\ doc.totalDiscount = totalDiscount
     /\ doc.totalTax = totalTax
     /\ doc.grandTotal = grandTotal

\* the rounded amount and the balance follow from the grand total, and every
\* line item carries its own subtotal, tax and total
AmountsDerived(doc, isInvoice) ==
  /\ doc.roundedAmount = Round2(doc.grandTotal)
  /\ doc.balance = doc.roundedAmount - doc.amountPaid
  /\ \A k \in 1..Len(doc.items) :
        LET item == doc.items[k]
            price == IF isInvoice THEN item.unitPrice ELSE item.unitCost
            netAmount == item.quantity * price - item.discount
        IN /\ item.subtotal = item.quantity * price
           /\ item.taxAmount = (netAmount * item.taxRate) \div 100

\* C23: after every successful create and update of an invoice or a purchase,
\* the persisted item totals and document totals are the ones derived from the
\* persisted items.
TotalsDerivedAfterCreateAndUpdate ==
  [][/\ (last'.op \in {"createInvoice", "updateInvoice"} /\ last'.result = "ok")
          => /\ DocumentTotalsDerived(invoices'[last'.doc], TRUE)
             /\ AmountsDerived(invoices'[last'.doc], TRUE)
     /\ (last'.op \in {"createPurchase", "updatePurchase"} /\ last'.result = "ok")
          => /\ DocumentTotalsDerived(purchases'[last'.doc], FALSE)
             /\ AmountsDerived(purchases'[last'.doc], FALSE)]_vars

\* the requests whose handler saves the document through save() or create()
SavingInvoiceRequests == {"createInvoice", "confirmInvoice", "recordInvoicePayment", "cancelInvoice"}
SavingPurchaseRequests == {"createPurchase", "receivePurchase", "recordPurchasePayment", "cancelPurchase"}

\* C24: a saved invoice or purchase with at least one item has subtotal the
\* sum of quantity * unit price, totalDiscount the sum of the discounts,
\* totalTax the sum of the A and the B bucket (each over the items of that tax
\* code only) and grandTotal = subtotal - totalDiscount + totalTax.
SavedTotalsFollowItems ==
  [][/\ (last'.op \in SavingInvoiceRequests /\ last'.result = "ok"
            /\ Len(invoices'[last'.doc].items) > 0)
          => DocumentTotalsDerived(invoices'[last'.doc], TRUE)
     /\ (last'.op \in SavingPurchaseRequests /\ last'.result = "ok"
            /\ Len(purchases'[last'.doc].items) > 0)
          => DocumentTotalsDerived(purchases'[last'.doc], FALSE)]_vars

\* an invoice with an item of tax code A and one of tax code B was saved by
\* confirmInvoice, with the tax of the B item only
TwoBucketInvoiceSaved ==
  /\ last = Response("confirmInvoice", "i1", "ok")
  /\ \E j, k \in 1..Len(invoices["i1"].items) :
        invoices["i1"].items[j].taxCode = "A" /\ invoices["i1"].items[k].taxCode = "B"
  /\ invoices["i1"].totalTax = Cur(90)
  /\ invoices["i1"].grandTotal = Cur(990)

Persisted(doc, path) == path \in DOMAIN doc

\* C26: a successful receivePurchase leaves the supplier's persisted
\* totalPurchases and outstandingBalance larger by the purchase's
\* roundedAmount; an accepted purchase payment leaves the persisted
\* outstandingBalance smaller by the amount, not below 0.
SupplierFollowsPurchase ==
  [][/\ (last'.op = "receivePurchase" /\ last'.result = "ok")
          => LET roundedAmount == purchases'[last'.doc].roundedAmount
                 before == suppliers[TheSupplier]
                 after == suppliers'[TheSupplier]
             IN /\ after.totalPurchases = before.totalPurchases + roundedAmount
                /\ Persisted(after, "outstandingBalance")
                /\ Persisted(before, "outstandingBalance")
                /\ after.outstandingBalance = before.outstandingBalance + roundedAmount
     /\ (last'.op = "recordPurchasePayment" /\ last'.result = "ok")
          => LET payments == purchases'[last'.doc].payments
                 amount == payments[Len(payments)]
                 before == suppliers[TheSupplier]
                 after == suppliers'[TheSupplier]
             IN /\ Persisted(after, "outstandingBalance")
                /\ Persisted(before, "outstandingBalance")
                /\ after.outstandingBalance = Max(0, before.outstandingBalance - amount)]_vars

\* C27: a product's currentStock changes only in a step that inserts a stock
\* movement of that product, or, for deleteStockMovement, removes one.
StockChangesOnlyWithMovement ==
  [][\A p \in Products :
       products'[p].currentStock # products[p].currentStock
         => \/ /\ Len(movements') > Len(movements)
               /\ \E k \in (Len(movements) + 1)..Len(movements') : movements'[k].product = p
            \/ /\ last'.op = "deleteStockMovement"
               /\ \E k \in 1..Len(movements) :
                     movements[k].product = p /\ movements' = RemoveAt(movements, k)]_vars

\* C28: deleteStockMovement of a movement m removes m from the ledger and
\* leaves the product with the stock it would have had without m (its stock
\* less the signed quantity of m), for any m of the ledger.
DeleteUndoesTheMovement ==
  [][last'.op = "deleteStockMovement"
       => \E k \in 1..Len(movements) :
            /\ movements' = RemoveAt(movements, k)
            /\ products'[movements[k].product].currentStock
                 = products[movements[k].product].currentStock - SignedQuantity(movements[k])
            /\ \A p \in Products \ {movements[k].product} : products'[p] = products[p]]_vars

\* C29: every product's persisted currentStock is non-negative in every
\* reachable state, in any order and any interleaving of the requests.
StockNeverNegative == \A p \in Products : products[p].currentStock >= 0

\* two cancelPurchase requests for the same purchase ran side by side on a
\* product with less stock than the purchased quantity: the second reversal
\* was cut off at zero
ReversedTwiceDownToZero ==
  /\ BothDone
  /\ \A r \in Procs : procs[r].op = "cancelPurchase"
  /\ \E p \in Products : \E j, k \in 1..Len(movements) :
        /\ j # k
        /\ movements[j].product = p /\ movements[k].product = p
        /\ movements[j].reason = "return" /\ movements[k].reason = "return"
        /\ movements[k].previousStock < movements[k].quantity
        /\ movements[k].newStock = 0
        /\ products[p].currentStock = 0

\* the bodies of adjustStock the specification speaks of: an outbound quantity
\* above the current stock, a reason outside the list, a type other than in, out
AdjustmentToRefuse(p, q, reason, type) ==
  \/ type = "out" /\ q > products[p].currentStock
  \/ reason \notin {"damage", "loss", "theft", "expired", "correction", "transfer"}
  \/ type \notin {"in", "out"}

\* C30: an outbound adjustStock with quantity above the current stock, and any
\* adjustStock with a reason outside the six reasons or a type other than in or
\* out, is rejected: no movement is created and currentStock is unchanged.
RefusedAdjustmentChangesNothing ==
  [][\A p \in Products, q \in AnyAdjustQuantities, reason \in AnyAdjustReasons,
        type \in AnyAdjustTypes :
        (AdjustmentToRefuse(p, q, reason, type) /\ adjustStock(p, q, reason, type))
          => /\ last'.op = "adjustStock"
             /\ last'.result \in {"InvalidReason", "ExceedsStock", "InvalidType"}
             /\ movements' = movements
             /\ products' = products]_vars

\* an outbound adjustment above the stock was refused while the product had
\* stock and earlier movements exist
OutboundAboveStockRefused ==
  /\ last.op = "adjustStock"
  /\ last.result = "ExceedsStock"
  /\ Len(movements) > 0
  /\ \A p \in Products : products[p].currentStock > 0

\* the quantity the line items order of product p
RECURSIVE OrderedQuantity(_, _)
OrderedQuantity(items, p) ==
  IF items = <<>> THEN 0
  ELSE (IF Head(items).product = p THEN Head(items).quantity ELSE 0)
         + OrderedQuantity(Tail(items), p)

\* C31: an accepted payment on a draft invoice whose stock has not moved has
\* the stock effect of confirmInvoice: one 'sale' movement per line item, in
\* the order of the items, and each product's currentStock reduced by the
\* quantity the items order of it.
FirstPaymentDeductsAsConfirm ==
  [][\A i \in DOMAIN invoices, amount \in PayAmounts :
        (/\ invoices[i].status = "draft"
         /\ ~invoices[i].stockDeducted
         /\ ~HasMovement(movements, "Invoice", i)
         /\ recordInvoicePayment(i, amount)
         /\ last'.result = "ok")
          => LET items == invoices[i].items
             IN /\ Len(movements') = Len(movements) + Len(items)
                /\ SubSeq(movements', 1, Len(movements)) = movements
                /\ \A k \in 1..Len(items) :
                      LET m == movements'[Len(movements) + k]
                      IN /\ m.product = items[k].product
                         /\ m.type = "out" /\ m.reason = "sale"
                         /\ m.quantity = items[k].quantity
                         /\ m.referenceModel = "Invoice" /\ m.referenceDocument = i
                /\ \A p \in Products :
                      products'[p].currentStock =
                        products[p].currentStock - OrderedQuantity(items, p)]_vars

\* what a movement records of the stock change itself
MovementCore(m) ==
  [product |-> m.product, type |-> m.type, quantity |-> m.quantity,
   previousStock |-> m.previousStock, newStock |-> m.newStock]

\* C32: after creation a movement's product, type, quantity, previousStock and
\* newStock never change (a step that removes no movement leaves them as they
\* were in every existing movement), and updateStockMovement, whatever its
\* body carries, changes no such field, no count of movements and no product.
MovementCoreNeverChanges ==
  [][/\ Len(movements') >= Len(movements)
        => \A j \in 1..Len(movements) :
             MovementCore(movements'[j]) = MovementCore(movements[j])
     /\ \A k \in 1..Len(movements), body \in MovementBodies :
          updateStockMovement(k, body)
            => /\ Len(movements') = Len(movements)
               /\ \A j \in 1..Len(movements) :
                    MovementCore(movements'[j]) = MovementCore(movements[j])
               /\ products' = products]_vars

\* a movement was edited with a body that carries a product, a type and
\* quantities next to its notes: the notes were taken
MovementEditedWithQuantities ==
  /\ last.op = "updateStockMovement"
  /\ \E k \in 1..Len(movements) :
        /\ movements[k].notes = "recounted"
        /\ movements[k].quantity = 1

\* the payment entries of a document are still there, in their places
PaymentsKept(before, after) ==
  /\ Len(after.payments) >= Len(before.payments)
  /\ SubSeq(after.payments, 1, Len(before.payments)) = before.payments

\* C33: for every invoice and purchase amountPaid is the sum of the amounts
\* of its payment entries, and no step removes or rewrites a payment entry
\* of a document.
AmountPaidIsSumOfPayments ==
  [][/\ \A i \in DOMAIN invoices' : invoices'[i].amountPaid = SeqSum(invoices'[i].payments)
     /\ \A u \in DOMAIN purchases' : purchases'[u].amountPaid = SeqSum(purchases'[u].payments)
     /\ \A i \in DOMAIN invoices \cap DOMAIN invoices' : PaymentsKept(invoices[i], invoices'[i])
     /\ \A u \in DOMAIN purchases \cap DOMAIN purchases' :
          PaymentsKept(purchases[u], purchases'[u])]_vars

\* the ledger got one movement of this reason per line item of the document,
\* in the order of the items, after the movements it had
OneMovementPerItem(before, after, items, reason, refModel, refDoc) ==
  /\ Len(after) = Len(before) + Len(items)
  /\ SubSeq(after, 1, Len(before)) = before
  /\ \A k \in 1..Len(items) :
        LET m == after[Len(before) + k]
        IN /\ m.product = items[k].product
           /\ m.reason = reason
           /\ m.quantity = items[k].quantity
           /\ m.referenceModel = refModel /\ m.referenceDocument = refDoc

\* C34: an accepted payment on a draft purchase whose stock has not been added
\* adds the stock (one 'purchase' movement per item, stockAdded = true, status
\* 'received') if and only if the payment method is cash or card; an accepted
\* payment on a draft invoice deducts the stock of its items whatever the
\* payment method.
PaymentMovesStockByMethod ==
  [][/\ \A u \in DOMAIN purchases, amount \in PayAmounts, m \in PayMethods :
          (/\ purchases[u].status = "draft"
           /\ ~purchases[u].stockAdded
           /\ recordPurchasePayment(u, amount, m)
           /\ last'.result = "ok")
            => IF m \in {"cash", "card"}
               THEN /\ OneMovementPerItem(movements, movements', purchases[u].items,
                                          "purchase", "Purchase", u)
                    /\ \A p \in Products :
                          products'[p].currentStock =
                            products[p].currentStock + OrderedQuantity(purchases[u].items, p)
                    /\ purchases'[u].stockAdded
                    /\ purchases'[u].status = "received"
               ELSE /\ movements' = movements
                    /\ products' = products
                    /\ ~purchases'[u].stockAdded
                    /\ purchases'[u].status # "received"
     /\ \A i \in DOMAIN invoices, amount \in PayAmounts :
          (/\ invoices[i].status = "draft"
           /\ ~invoices[i].stockDeducted
           /\ recordInvoicePayment(i, amount)
           /\ last'.result = "ok")
            => /\ invoices'[i].stockDeducted
               /\ \A p \in Products :
                     products'[p].currentStock =
                       products[p].currentStock - OrderedQuantity(invoices[i].items, p)]_vars

\* C35: a purchase whose status is received, partial or paid has had its stock
\* added (stockAdded = true).
PaidPurchaseHasStockAdded ==
  \A u \in DOMAIN purchases :
     purchases[u].status \in {"received", "partial", "paid"} => purchases[u].stockAdded

\* C36: a draft invoice has stockDeducted = false and no stock movement
\* references it; an invoice whose status is confirmed, partial or paid has
\* stockDeducted = true.
InvoiceStatusFollowsStock ==
  \A i \in DOMAIN invoices :
     /\ invoices[i].status = "draft"
          => ~invoices[i].stockDeducted /\ ~HasMovement(movements, "Invoice", i)
     /\ invoices[i].status \in {"confirmed", "partial", "paid"} => invoices[i].stockDeducted

\* what is left to pay on the invoices of the set ids that are confirmed or
\* partly paid
RECURSIVE OwedOn(_)
OwedOn(ids) ==
  IF ids = {} THEN 0
  ELSE LET i == CHOOSE x \in ids : TRUE
       IN (IF invoices[i].status \in {"confirmed", "partial"}
           THEN invoices[i].roundedAmount - invoices[i].amountPaid ELSE 0)
            + OwedOn(ids \ {i})

\* C37: the outstandingBalance of the client, which starts at 0, is the sum of
\* roundedAmount - amountPaid over the client's invoices whose status is
\* confirmed or partial.
ClientOwesWhatIsOpen ==
  clients[TheClient].outstandingBalance = OwedOn(DOMAIN invoices)

\* the sum of the line items' totalWithTax
RECURSIVE TotalWithTaxSum(_)
TotalWithTaxSum(items) ==
  IF items = <<>> THEN 0 ELSE Head(items).totalWithTax + TotalWithTaxSum(Tail(items))

\* C38: every saved invoice and purchase has grandTotal equal to the sum of
\* its items' totalWithTax, whatever the tax codes (A, B, None) and tax rates
\* of the items.
GrandTotalIsSumOfItemTotals ==
  [][/\ (last'.op \in SavingInvoiceRequests /\ last'.result = "ok")
          => invoices'[last'.doc].grandTotal = TotalWithTaxSum(invoices'[last'.doc].items)
     /\ (last'.op \in SavingPurchaseRequests /\ last'.result = "ok")
          => purchases'[last'.doc].grandTotal = TotalWithTaxSum(purchases'[last'.doc].items)]_vars

\* C39: the number generated for a new invoice, purchase or quotation (the
\* count of the existing documents plus one) is the number of no existing
\* document of that collection.
NewNumberIsUnused ==
  /\ ~DuplicateKey(invoices, "invoiceNumber", NumberFor(invoices))
  /\ ~DuplicateKey(purchases, "purchaseNumber", NumberFor(purchases))
  /\ ~DuplicateKey(quotations, "quotationNumber", NumberFor(quotations))
====
